---- MODULE Spec2Model ----
(***************************************************************************)
(* A model of the deterministic lexical RAG skeleton of                    *)
(* 02-workflow-orchestration/dagster_project/dags/dag_06_chat_pipeline.py. *)
(*                                                                         *)
(* Strings that the code inspects (document content, chunk text, queries)  *)
(* are sequences of one-character strings; tokens are such sequences too.  *)
(* Identifiers that the code only concatenates (document ids, chunk ids,   *)
(* titles) are TLA+ strings.                                               *)
(*                                                                         *)
(* Floats produced by round(x, 4) are modelled by the integer number of    *)
(* ten-thousandths they denote, those of round(x, 2) by hundredths.        *)
(***************************************************************************)
EXTENDS Integers, Sequences, FiniteSets, TLC

VARIABLES
    \* _chunk_text, one loop iteration at a time
    text, chunk_size, overlap, tokens, step, start, chunks, iterations, cpc,
    \* the ops of the RAG jobs
    documents, chunk_payload, index_payload, query, top_k, retrieval_payload,
    clock, pc,
    \* the answers, their metrics, and the outputs of an earlier run on the
    \* same inputs
    grounded_answer, grounded_metrics, baseline_answer, baseline_metrics, previous,
    \* the context's run_id, the artifact directories and files, and the
    \* writes made so far
    run_id, dirs, files, writes,
    \* the module-level DEFAULT_DOCS, the environment's RAG_SOURCE_URL, the log,
    \* what the last requests.get did
    DEFAULT_DOCS, RAG_SOURCE_URL, log, response,
    \* the job that is run (None when the ops are called one by one), the
    \* exception an op raised, and the runs that are under way together
    job, raised, runs,
    \* the queries of a session and what run_session_with_rag returned
    queries, session_payload,
    \* the staging table and the main table of one taxi type
    staging, main

chunkVars == <<text, chunk_size, overlap, tokens, step, start, chunks, iterations, cpc>>
opVars == <<documents, chunk_payload, index_payload, query, top_k, retrieval_payload, clock, pc>>
answerVars == <<grounded_answer, grounded_metrics, baseline_answer, baseline_metrics, previous>>
storeVars == <<run_id, dirs, files, writes>>
ingestVars == <<DEFAULT_DOCS, RAG_SOURCE_URL, log, response>>
ctlVars == <<job, raised, runs>>
sessionVars == <<queries, session_payload>>
taxiVars == <<staging, main>>
runVars == <<answerVars, storeVars, ingestVars, ctlVars, sessionVars, taxiVars>>
opVarsButPc == <<documents, chunk_payload, index_payload, query, top_k, retrieval_payload, clock>>
vars == <<chunkVars, opVars, runVars>>

\* The value of a variable that holds nothing yet.
None == "None"

\* An environment variable: unset, or set to a string.
Unset == [ set |-> FALSE ]
SetTo(value) == [ set |-> TRUE, value |-> value ]

\* os.getenv(name, default)
Getenv(variable, default) == IF variable.set THEN variable.value ELSE default

-----------------------------------------------------------------------------
(* Bounds of the model. *)

MaxTokens == 6      \* longest token sequence drawn for _chunk_text
MaxTextLen == 3     \* longest raw character string drawn for _chunk_text
MaxChunkSize == 3   \* largest chunk_size drawn for _chunk_text
MaxOverlap == 3     \* largest overlap drawn for _chunk_text
MaxClock == 1       \* latest reading of the clock
MaxDocs == 2        \* most documents drawn for chunk_documents
MaxChunks == 3      \* most chunks drawn for build_mock_index
MaxTopK == 3        \* largest top_k drawn for retrieve_relevant_chunks
MaxRetrieved == 2         \* the chunks of a drawn retrieval payload
MaxPipelineDocs == 2      \* the documents drawn for the ops of the RAG path
MaxEvaluated == 3         \* the chunks retrieved, and cited, in what the evaluators are given
MaxRuns == 2              \* the runs that execute at the same time
MaxIngests == 3           \* the calls of ingest_documents
MaxMalformedDocs == 2     \* the documents drawn, some of them lacking a field
MaxTokenizeLen == 4       \* the longest text drawn for _tokenize
ManyChunks == 1001  \* the chunks of the longest document drawn
LongQueryTokens == 200        \* the tokens of a long query
VeryLongQueryTokens == 20001  \* the tokens of a very long query

-----------------------------------------------------------------------------
(* Characters, str.lower() and the character class [a-zA-Z0-9_]. *)

Lowercase == << "a", "b", "c", "d", "e", "f", "g", "h", "i", "j", "k", "l", "m",
                "n", "o", "p", "q", "r", "s", "t", "u", "v", "w", "x", "y", "z" >>
Uppercase == << "A", "B", "C", "D", "E", "F", "G", "H", "I", "J", "K", "L", "M",
                "N", "O", "P", "Q", "R", "S", "T", "U", "V", "W", "X", "Y", "Z" >>
Digits == << "0", "1", "2", "3", "4", "5", "6", "7", "8", "9" >>

Range(s) == { s[i] : i \in DOMAIN s }

Max(a, b) == IF a >= b THEN a ELSE b
Min(a, b) == IF a <= b THEN a ELSE b

UppercaseLetters == Range(Uppercase)

\* str.lower() on one character.
lower(c) ==
    IF c \in UppercaseLetters
    THEN Lowercase[CHOOSE i \in DOMAIN Uppercase : Uppercase[i] = c]
    ELSE c

\* The class [a-zA-Z0-9_] of the pattern in _tokenize.
WordChars == Range(Lowercase) \cup Range(Uppercase) \cup Range(Digits) \cup {"_"}

\* The code point of a character, for the order sorted() puts tokens in.
CodePoint(c) ==
    IF c \in Range(Digits) THEN 47 + (CHOOSE i \in DOMAIN Digits : Digits[i] = c)
    ELSE IF c \in Range(Uppercase) THEN 64 + (CHOOSE i \in DOMAIN Uppercase : Uppercase[i] = c)
    ELSE IF c = "_" THEN 95
    ELSE IF c \in Range(Lowercase) THEN 96 + (CHOOSE i \in DOMAIN Lowercase : Lowercase[i] = c)
    ELSE IF c = " " THEN 32
    ELSE 46

\* Mutant of Glue: the runs on the two sides of the cut are never put together.
Glue_NeverMerged(L, R, crosses) == L \o R

\* Two neighbouring scans put together: when the text has word characters on
\* both sides of the cut, the last run of the left part and the first run of the
\* right part are one run.
Glue(L, R, crosses) ==
    IF crosses
    THEN SubSeq(L, 1, Len(L) - 1) \o << L[Len(L)] \o R[1] >> \o Tail(R)
    ELSE L \o R

\* re.findall(r"[a-zA-Z0-9_]+", s.lower()) on s[lo..hi]: the maximal runs of
\* word characters of the lower-cased text, left to right. The two halves are
\* scanned apart and a run that crosses the middle is put together again.
RECURSIVE FindAll(_, _, _)
FindAll(s, lo, hi) ==
    IF lo > hi THEN << >>
    ELSE IF lo = hi
    THEN (IF lower(s[lo]) \in WordChars THEN << << lower(s[lo]) >> >> ELSE << >>)
    ELSE CHOOSE r \in
            { Glue(L, R, lower(s[mid]) \in WordChars /\ lower(s[mid + 1]) \in WordChars) :
                mid \in { (lo + hi) \div 2 },
                L \in { FindAll(s, lo, (lo + hi) \div 2) },
                R \in { FindAll(s, (lo + hi) \div 2 + 1, hi) } } : TRUE

\* _tokenize: re.findall(r"[a-zA-Z0-9_]+", text.lower())
_tokenize(t) == FindAll(t, 1, Len(t))

\* " ".join(toks)
RECURSIVE Join(_)
Join(toks) ==
    IF toks = << >> THEN << >>
    ELSE IF Len(toks) = 1 THEN toks[1]
    ELSE toks[1] \o << " " >> \o Join(Tail(toks))

\* Python's s[a:b] on a list, a and b any integers.
Slice(s, a, b) ==
    LET n == Len(s)
        lo == IF a < 0 THEN Max(a + n, 0) ELSE Min(a, n)
        hi == IF b < 0 THEN Max(b + n, 0) ELSE Min(b, n)
    IN  IF lo < hi THEN SubSeq(s, lo + 1, hi) ELSE << >>

-----------------------------------------------------------------------------
(* _chunk_text, one iteration of its loop at a time.                       *)
(* cpc: "call" before the call, "loop" at the head of the for loop with    *)
(* `start` the next value of range(0, len(tokens), step), "done" after the *)
(* return; `chunks` is then the returned list.                             *)

\* Mutants of Step: the overlap added instead of subtracted; the floor left out.
Step_OverlapAdded(c, o) == Max(1, c + o)
Step_NoFloor(c, o) == c - o

\* step = max(1, chunk_size - overlap)
Step(c, o) == Max(1, c - o)

\* Mutant of ReachedEnd: a window that ends exactly at the last token does not
\* stop the loop.
ReachedEnd_Strict(toks, s, c) == s + c > Len(toks)

\* if start + chunk_size >= len(tokens): break
ReachedEnd(toks, s, c) == s + c >= Len(toks)

\* The window of one iteration: tokens[start : start + chunk_size].
Window(toks, s, c) == Slice(toks, s, s + c)

\* tokens = _tokenize(text); if not tokens: return []
ChunkReturnEmpty ==
    /\ cpc = "call"
    /\ _tokenize(text) = << >>
    /\ tokens' = << >>
    /\ chunks' = << >>
    /\ cpc' = "done"
    /\ UNCHANGED <<text, chunk_size, overlap, step, start, iterations, opVars, runVars>>

\* tokens = _tokenize(text); chunks = []; step = max(1, chunk_size - overlap)
ChunkEnterLoop ==
    /\ cpc = "call"
    /\ _tokenize(text) # << >>
    /\ tokens' = _tokenize(text)
    /\ chunks' = << >>
    /\ step' = Step(chunk_size, overlap)
    /\ start' = 0
    /\ cpc' = "loop"
    /\ UNCHANGED <<text, chunk_size, overlap, iterations, opVars, runVars>>

\* An iteration whose window is empty: continue.
ChunkSkipEmpty ==
    /\ cpc = "loop"
    /\ start < Len(tokens)
    /\ Window(tokens, start, chunk_size) = << >>
    /\ start' = start + step
    /\ iterations' = iterations + 1
    /\ UNCHANGED <<text, chunk_size, overlap, tokens, step, chunks, cpc, opVars, runVars>>

\* An iteration that appends its window and goes on.
ChunkAppend ==
    /\ cpc = "loop"
    /\ start < Len(tokens)
    /\ Window(tokens, start, chunk_size) # << >>
    /\ ~ReachedEnd(tokens, start, chunk_size)
    /\ chunks' = Append(chunks, Join(Window(tokens, start, chunk_size)))
    /\ start' = start + step
    /\ iterations' = iterations + 1
    /\ UNCHANGED <<text, chunk_size, overlap, tokens, step, cpc, opVars, runVars>>

\* An iteration that appends its window and breaks: the window reached the end.
ChunkAppendBreak ==
    /\ cpc = "loop"
    /\ start < Len(tokens)
    /\ Window(tokens, start, chunk_size) # << >>
    /\ ReachedEnd(tokens, start, chunk_size)
    /\ chunks' = Append(chunks, Join(Window(tokens, start, chunk_size)))
    /\ iterations' = iterations + 1
    /\ cpc' = "done"
    /\ UNCHANGED <<text, chunk_size, overlap, tokens, step, start, opVars, runVars>>

\* range(0, len(tokens), step) is exhausted: return chunks.
ChunkExhausted ==
    /\ cpc = "loop"
    /\ start >= Len(tokens)
    /\ cpc' = "done"
    /\ UNCHANGED <<text, chunk_size, overlap, tokens, step, start, chunks, iterations, opVars, runVars>>

\* The texts _chunk_text is called on: every string of up to MaxTextLen
\* characters of a small alphabet, and the space-joined token sequences of up
\* to MaxTokens tokens of a small vocabulary.
TextAlphabet == { "a", "B", " ", "." }
Vocabulary == { << "a" >>, << "b", "c" >> }

SeqsUpTo(S, n) == UNION { [1..k -> S] : k \in 0..n }

\* 'alpha beta gamma alpha'
Alpha == << "a", "l", "p", "h", "a" >>
Beta == << "b", "e", "t", "a" >>
Gamma == << "g", "a", "m", "m", "a" >>
Scenario1Text == Join(<< Alpha, Beta, Gamma, Alpha >>)

ChunkTexts ==
    SeqsUpTo(TextAlphabet, MaxTextLen)
        \cup { Join(ts) : ts \in SeqsUpTo(Vocabulary, MaxTokens) }
        \cup { Scenario1Text }

ChunkSizes == (0 - 1)..MaxChunkSize
Overlaps == (0 - 1)..MaxOverlap

\* DEFAULT_QUERY
DEFAULT_QUERY ==
    << "W", "h", "i", "c", "h", " ", "f", "e", "a", "t", "u", "r", "e", "s",
       " ", "w", "e", "r", "e", " ", "r", "e", "l", "e", "a", "s", "e", "d",
       " ", "i", "n", " ", "K", "e", "s", "t", "r", "a", " ", "1", ".", "1",
       "?", " ", "L", "i", "s", "t", " ", "a", "t", " ", "l", "e", "a", "s",
       "t", " ", "5", " ", "m", "a", "j", "o", "r", " ", "f", "e", "a", "t",
       "u", "r", "e", "s", "." >>

\* The content of the first document of DEFAULT_DOCS.
KestraReleaseContent ==
    << "K", "e", "s", "t", "r", "a", " ", "1", ".", "1", " ", "r", "e", "l",
       "e", "a", "s", "e", " ", "h", "i", "g", "h", "l", "i", "g", "h", "t",
       "s", " ", "i", "n", "c", "l", "u", "d", "e", " ", "b", "e", "t", "t",
       "e", "r", " ", "p", "l", "u", "g", "i", "n", " ", "d", "e", "v", "e",
       "l", "o", "p", "m", "e", "n", "t", " ", "t", "o", "o", "l", "i", "n",
       "g", ",", " ", "i", "m", "p", "r", "o", "v", "e", "d", " ", "s", "c",
       "h", "e", "d", "u", "l", "i", "n", "g", " ", "e", "r", "g", "o", "n",
       "o", "m", "i", "c", "s", ",", " ", "e", "n", "h", "a", "n", "c", "e",
       "d", " ", "U", "I", "/", "U", "X", " ", "a", "r", "o", "u", "n", "d",
       " ", "e", "x", "e", "c", "u", "t", "i", "o", "n", "s", ",", " ", "s",
       "t", "r", "o", "n", "g", "e", "r", " ", "s", "e", "c", "r", "e", "t",
       " ", "m", "a", "n", "a", "g", "e", "m", "e", "n", "t", " ", "o", "p",
       "t", "i", "o", "n", "s", ",", " ", "a", "n", "d", " ", "b", "e", "t",
       "t", "e", "r", " ", "K", "u", "b", "e", "r", "n", "e", "t", "e", "s",
       " ", "d", "e", "p", "l", "o", "y", "m", "e", "n", "t", " ", "s", "u",
       "p", "p", "o", "r", "t", ".", " ", "A", "d", "d", "i", "t", "i", "o",
       "n", "a", "l", " ", "i", "m", "p", "r", "o", "v", "e", "m", "e", "n",
       "t", "s", " ", "i", "n", "c", "l", "u", "d", "e", " ", "r", "e", "l",
       "i", "a", "b", "i", "l", "i", "t", "y", " ", "u", "p", "d", "a", "t",
       "e", "s", ",", " ", "o", "b", "s", "e", "r", "v", "a", "b", "i", "l",
       "i", "t", "y", " ", "e", "n", "h", "a", "n", "c", "e", "m", "e", "n",
       "t", "s", ",", " ", "a", "n", "d", " ", "d", "o", "c", "s", " ", "r",
       "e", "f", "r", "e", "s", "h", "." >>

\* The content of the second document of DEFAULT_DOCS.
RagPrimerContent ==
    << "R", "A", "G", " ", "p", "i", "p", "e", "l", "i", "n", "e", "s", " ",
       "u", "s", "u", "a", "l", "l", "y", " ", "i", "n", "c", "l", "u", "d",
       "e", " ", "i", "n", "g", "e", "s", "t", "i", "o", "n", ",", " ", "c",
       "h", "u", "n", "k", "i", "n", "g", ",", " ", "i", "n", "d", "e", "x",
       "i", "n", "g", ",", " ", "r", "e", "t", "r", "i", "e", "v", "a", "l",
       ",", " ", "g", "e", "n", "e", "r", "a", "t", "i", "o", "n", ",", " ",
       "a", "n", "d", " ", "e", "v", "a", "l", "u", "a", "t", "i", "o", "n",
       ".", " ", "D", "a", "t", "a", " ", "e", "n", "g", "i", "n", "e", "e",
       "r", "i", "n", "g", " ", "p", "r", "i", "o", "r", "i", "t", "i", "e",
       "s", " ", "i", "n", "c", "l", "u", "d", "e", " ", "l", "i", "n", "e",
       "a", "g", "e", ",", " ", "q", "u", "a", "l", "i", "t", "y", " ", "c",
       "h", "e", "c", "k", "s", ",", " ", "r", "e", "t", "r", "i", "e", "s",
       ",", " ", "i", "d", "e", "m", "p", "o", "t", "e", "n", "c", "y", ",",
       " ", "a", "n", "d", " ", "a", "r", "t", "i", "f", "a", "c", "t", " ",
       "p", "e", "r", "s", "i", "s", "t", "e", "n", "c", "e", "." >>

KestraReleaseId ==
    << "k", "e", "s", "t", "r", "a", "_", "r", "e", "l", "e", "a", "s", "e",
       "_", "1", "_", "1" >>

RagPrimerId ==
    << "r", "a", "g", "_", "p", "r", "i", "m", "e", "r" >>

ExternalSourceId ==
    << "e", "x", "t", "e", "r", "n", "a", "l", "_", "s", "o", "u", "r", "c",
       "e" >>

Embedded ==
    << "e", "m", "b", "e", "d", "d", "e", "d" >>

\* The list DEFAULT_DOCS holds when the module is loaded.
EmbeddedDocs ==
    << [ id |-> KestraReleaseId,
         title |-> "Kestra 1.1 Release Notes (summary)",
         source |-> Embedded,
         content |-> KestraReleaseContent ],
       [ id |-> RagPrimerId,
         title |-> "RAG Basics for Data Engineers",
         source |-> Embedded,
         content |-> RagPrimerContent ] >>

\* Nothing generated, stored, ingested or logged yet, no run under way.
\* No request has been made.
NoResponse == [ outcome |-> "none", text |-> << >> ]

InitRunIdle ==
    /\ grounded_answer = None
    /\ grounded_metrics = None
    /\ baseline_answer = None
    /\ baseline_metrics = None
    /\ previous = << >>
    /\ run_id = None
    /\ dirs = { }
    /\ files = << >>
    /\ writes = << >>
    /\ DEFAULT_DOCS = EmbeddedDocs
    /\ response = NoResponse
    /\ queries = << >>
    /\ session_payload = None
    /\ staging = << >>
    /\ main = << >>
    /\ RAG_SOURCE_URL = Unset
    /\ log = << >>
    /\ job = None
    /\ raised = None
    /\ runs = << >>

InitOpsIdle ==
    /\ documents = None
    /\ chunk_payload = None
    /\ index_payload = None
    /\ query = None
    /\ top_k = 0
    /\ retrieval_payload = None
    /\ clock = 0
    /\ pc = "idle"
    /\ InitRunIdle

InitChunk ==
    /\ text \in ChunkTexts
    /\ chunk_size \in ChunkSizes
    /\ overlap \in Overlaps
    /\ tokens = << >>
    /\ step = 0
    /\ start = 0
    /\ chunks = << >>
    /\ iterations = 0
    /\ cpc = "call"
    /\ InitOpsIdle

NextChunk ==
    \/ ChunkReturnEmpty
    \/ ChunkEnterLoop
    \/ ChunkSkipEmpty
    \/ ChunkAppend
    \/ ChunkAppendBreak
    \/ ChunkExhausted

SpecChunk == InitChunk /\ [][NextChunk]_vars

\* The loop is a sequential program: it takes its next step whenever it has one.
FairSpecChunk == SpecChunk /\ WF_vars(NextChunk)

-----------------------------------------------------------------------------
(* _chunk_text as the ops call it: the list the loop above returns.        *)

\* The least member of a non-empty finite set of integers.
MinOf(S) == CHOOSE x \in S : \A y \in S : x <= y

\* range(0, len(tokens), step) is visited in order up to the first start whose
\* window is appended and reaches the end (the break); every visited start
\* with a non-empty window contributes its joined window.
ChunksOfTokens(toks, c, o) ==
    LET starts == { s \in 0..(Len(toks) - 1) : s % Step(c, o) = 0 }
        breaks == { s \in starts : Window(toks, s, c) # << >> /\ ReachedEnd(toks, s, c) }
        visited == IF breaks = { } THEN Cardinality(starts) ELSE MinOf(breaks) \div Step(c, o) + 1
        windows == [ j \in 1..visited |-> Window(toks, (j - 1) * Step(c, o), c) ]
        NonEmpty(w) == w # << >>
        kept == SelectSeq(windows, NonEmpty)
    IN  [ k \in 1..Len(kept) |-> Join(kept[k]) ]

\* Mutant of _chunk_text: a text without tokens gives one empty chunk.
_chunk_text_OneEmptyChunk(t, c, o) ==
    IF _tokenize(t) = << >> THEN << << >> >> ELSE ChunksOfTokens(_tokenize(t), c, o)

_chunk_text(t, c, o) ==
    IF _tokenize(t) = << >> THEN << >> ELSE ChunksOfTokens(_tokenize(t), c, o)

-----------------------------------------------------------------------------
(* The ops: chunk_documents, build_mock_index, retrieve_relevant_chunks.   *)
(* pc names the op that runs next. datetime.utcnow() reads `clock`, which  *)
(* the environment advances between ops.                                   *)

DefaultChunkSize == 50
DefaultOverlap == 10

\* The number of ten-thousandths in 1: scores are rounded to 4 decimals.
ScoreScale == 10000
\* The number of hundredths in 1: averages are rounded to 2 decimals.
AverageScale == 100

\* round(a / b, d) for integers a >= 0, b >= 1, in units of 1/scale. The float
\* quotient is within one part in 2^53 of a/b, so it rounds as a/b does, except
\* on a tie; Python rounds the binary value to the nearest, a tie (exact only
\* when a/b is a multiple of 1/32 resp. 1/8) to the even neighbour.
RoundHalfEven(a, b, scale) ==
    IF 2 * ((scale * a) % b) < b THEN (scale * a) \div b
    ELSE IF 2 * ((scale * a) % b) > b THEN (scale * a) \div b + 1
    ELSE IF ((scale * a) \div b) % 2 = 0 THEN (scale * a) \div b
    ELSE (scale * a) \div b + 1

\* Mutant of Round4: the quotient is cut off, not rounded.
Round4_Truncated(a, b) == (ScoreScale * a) \div b

\* round(a / b, 4), in ten-thousandths.
Round4(a, b) == RoundHalfEven(a, b, ScoreScale)

\* round(a / b, 2), in hundredths.
Round2(a, b) == RoundHalfEven(a, b, AverageScale)

\* str(k) for k >= 0.
RECURSIVE DecimalChars(_)
DecimalChars(k) ==
    IF k < 10 THEN << Digits[k + 1] >>
    ELSE DecimalChars(k \div 10) \o << Digits[(k % 10) + 1] >>

\* Mutant of Format03d: no zero-padding.
Format03d_Unpadded(k) == DecimalChars(k)

\* f"{index:03d}" for index >= 0: zero-padded to at least three digits.
Format03d(k) ==
    IF k < 10 THEN << "0", "0" >> \o DecimalChars(k)
    ELSE IF k < 100 THEN << "0" >> \o DecimalChars(k)
    ELSE DecimalChars(k)

ChunkInfix == << "_", "c", "h", "u", "n", "k", "_" >>

\* Mutant of ChunkId: the numbering goes on from the number of artifacts
\* written so far.
ChunkId_NumberedOn(doc_id, index) == doc_id \o ChunkInfix \o Format03d(index + Len(writes))

\* f"{document['id']}_chunk_{index:03d}"
ChunkId(doc_id, index) == doc_id \o ChunkInfix \o Format03d(index)

\* The chunk records of one document, in order.
ChunksOfDocument(document) ==
    LET cs == _chunk_text(document.content, DefaultChunkSize, DefaultOverlap)
    IN  [ k \in 1..Len(cs) |->
            [ chunk_id |-> ChunkId(document.id, k - 1),
              doc_id |-> document.id,
              title |-> document.title,
              text |-> cs[k],
              token_count |-> Len(_tokenize(cs[k])) ] ]

RECURSIVE ChunksOfDocuments(_)
ChunksOfDocuments(docs) ==
    IF docs = << >> THEN << >>
    ELSE ChunksOfDocument(Head(docs)) \o ChunksOfDocuments(Tail(docs))

\* sum(chunk["token_count"] for chunk in cs[lo..hi])
RECURSIVE SumTokenCounts(_, _, _)
SumTokenCounts(cs, lo, hi) ==
    IF lo > hi THEN 0
    ELSE IF lo = hi THEN cs[lo].token_count
    ELSE SumTokenCounts(cs, lo, (lo + hi) \div 2) + SumTokenCounts(cs, (lo + hi) \div 2 + 1, hi)

ChunkMetrics(docs, cs, now) ==
    [ document_count |-> Len(docs),
      chunk_count |-> Len(cs),
      avg_chunk_tokens |-> Round2(SumTokenCounts(cs, 1, Len(cs)), Max(1, Len(cs))),
      timestamp |-> now ]

\* What chunk_documents returns.
chunk_documents(docs, now) ==
    LET cs == ChunksOfDocuments(docs)
    IN  [ chunks |-> cs, metrics |-> ChunkMetrics(docs, cs, now) ]

\* u < t for two strings, as Python compares them: by code point, a proper
\* prefix first.
TokenLess(u, t) ==
    \E i \in 1..(Min(Len(u), Len(t)) + 1) :
        /\ \A j \in 1..(i - 1) : u[j] = t[j]
        /\ IF i <= Len(u) /\ i <= Len(t)
           THEN CodePoint(u[i]) < CodePoint(t[i])
           ELSE i > Len(u) /\ i <= Len(t)

\* Mutant of SortedSet: the list itself, duplicates kept.
SortedSet_Unchanged(token_list) == token_list

\* sorted(set(token_list))
SortedSet(token_list) ==
    [ k \in 1..Cardinality(Range(token_list)) |->
        CHOOSE t \in Range(token_list) :
            Cardinality({ u \in Range(token_list) : TokenLess(u, t) }) = k - 1 ]

IndexEntry(chunk) ==
    [ chunk_id |-> chunk.chunk_id,
      doc_id |-> chunk.doc_id,
      title |-> chunk.title,
      text |-> chunk.text,
      tokens |-> SortedSet(_tokenize(chunk.text)) ]

\* What build_mock_index returns.
build_mock_index(payload, now) ==
    LET entries == [ i \in 1..Len(payload.chunks) |-> IndexEntry(payload.chunks[i]) ]
        vocabulary == UNION { Range(_tokenize(payload.chunks[i].text)) : i \in 1..Len(payload.chunks) }
    IN  [ entries |-> entries,
          metrics |-> [ indexed_chunks |-> Len(entries),
                        vocabulary_size |-> Cardinality(vocabulary),
                        index_type |-> "lexical_mock_index",
                        timestamp |-> now ] ]

\* round(overlap / union, 4) for one entry, union = len(...) or 1.
Score(query_tokens, entry_tokens) ==
    Round4(Cardinality(query_tokens \cap entry_tokens),
           IF Cardinality(query_tokens \cup entry_tokens) = 0
           THEN 1
           ELSE Cardinality(query_tokens \cup entry_tokens))

ScoredItem(entry, query_tokens) ==
    [ chunk_id |-> entry.chunk_id,
      doc_id |-> entry.doc_id,
      title |-> entry.title,
      text |-> entry.text,
      score |-> Score(query_tokens, Range(entry.tokens)) ]

\* Mutant of InsertByScore: the item goes before the items of equal score.
InsertByScore_BeforeEqual(sorted, item) ==
    LET p == Cardinality({ i \in 1..Len(sorted) : sorted[i].score > item.score })
    IN  SubSeq(sorted, 1, p) \o << item >> \o SubSeq(sorted, p + 1, Len(sorted))

\* One step of a stable descending sort: the item goes after every item whose
\* score is at least its own.
InsertByScore(sorted, item) ==
    LET p == Cardinality({ i \in 1..Len(sorted) : sorted[i].score >= item.score })
    IN  SubSeq(sorted, 1, p) \o << item >> \o SubSeq(sorted, p + 1, Len(sorted))

\* scored.sort(key=lambda item: item["score"], reverse=True): stable.
RECURSIVE SortByScore(_)
SortByScore(scored) ==
    IF scored = << >> THEN << >>
    ELSE InsertByScore(SortByScore(SubSeq(scored, 1, Len(scored) - 1)), scored[Len(scored)])

\* Mutant of TopK: one entry too few.
TopK_OneLess(sorted, k) == Slice(sorted, 0, k - 1)

\* scored[:top_k]
TopK(sorted, k) == Slice(sorted, 0, k)

\* Mutant of BestScore: the score of the last retrieved entry.
BestScore_Last(retrieved) ==
    IF retrieved # << >> THEN retrieved[Len(retrieved)].score ELSE 0

\* retrieved[0]["score"] if retrieved else 0
BestScore(retrieved) ==
    IF retrieved # << >> THEN retrieved[1].score ELSE 0

\* What retrieve_relevant_chunks returns.
retrieve_relevant_chunks(index, q, k, now) ==
    LET query_tokens == Range(_tokenize(q))
        scored == [ i \in 1..Len(index.entries) |-> ScoredItem(index.entries[i], query_tokens) ]
        retrieved == TopK(SortByScore(scored), k)
    IN  [ query |-> q,
          retrieved |-> retrieved,
          metrics |-> [ top_k |-> k,
                        retrieved_count |-> Len(retrieved),
                        best_score |-> BestScore(retrieved),
                        timestamp |-> now ] ]

\* The KeyError that the loop body of chunk_documents raises on a document, or
\* None: document["content"] is read for every document, document['id'] and
\* document["title"] only when the document has a chunk, and no other key is
\* read.
DocumentError(document) ==
    IF "content" \notin DOMAIN document THEN "KeyError: 'content'"
    ELSE IF { "id", "title" } \subseteq DOMAIN document THEN None
    ELSE IF _chunk_text(document.content, DefaultChunkSize, DefaultOverlap) = << >> THEN None
    ELSE IF "id" \notin DOMAIN document THEN "KeyError: 'id'"
    ELSE "KeyError: 'title'"

\* The exception chunk_documents raises, that of the first document that
\* raises one, or None when it returns.
ChunkDocumentsError(docs) ==
    IF \A i \in 1..Len(docs) : DocumentError(docs[i]) = None THEN None
    ELSE DocumentError(docs[CHOOSE i \in 1..Len(docs) :
                                /\ DocumentError(docs[i]) # None
                                /\ \A j \in 1..(i - 1) : DocumentError(docs[j]) = None])

\* chunk_documents returns its payload, or raises: the exception goes to the
\* caller and no later op of the job runs.
ChunkDocuments ==
    /\ pc = "chunk_documents"
    /\ IF ChunkDocumentsError(documents) = None
       THEN /\ chunk_payload' = chunk_documents(documents, clock)
            /\ pc' = "build_mock_index"
            /\ raised' = raised
       ELSE /\ chunk_payload' = chunk_payload
            /\ pc' = "raised"
            /\ raised' = ChunkDocumentsError(documents)
    /\ UNCHANGED <<documents, index_payload, query, top_k, retrieval_payload, clock, chunkVars, sessionVars, taxiVars>>
    /\ UNCHANGED <<answerVars, storeVars, ingestVars, job, runs>>

BuildMockIndex ==
    /\ pc = "build_mock_index"
    /\ index_payload' = build_mock_index(chunk_payload, clock)
    /\ pc' = "retrieve_relevant_chunks"
    /\ UNCHANGED <<documents, chunk_payload, query, top_k, retrieval_payload, clock, chunkVars, runVars>>

RetrieveRelevantChunks ==
    /\ pc = "retrieve_relevant_chunks"
    /\ retrieval_payload' = retrieve_relevant_chunks(index_payload, query, top_k, clock)
    /\ pc' = "generate_grounded_answer"
    /\ UNCHANGED <<documents, chunk_payload, index_payload, query, top_k, clock, chunkVars, runVars>>

\* Time passes between two ops.
Tick ==
    /\ clock < MaxClock
    /\ clock' = clock + 1
    /\ UNCHANGED <<documents, chunk_payload, index_payload, query, top_k, retrieval_payload, pc, chunkVars, runVars>>

InitChunkIdle ==
    /\ text = << >>
    /\ chunk_size = 0
    /\ overlap = 0
    /\ tokens = << >>
    /\ step = 0
    /\ start = 0
    /\ chunks = << >>
    /\ iterations = 0
    /\ cpc = "idle"

-----------------------------------------------------------------------------
(* chunk_documents on drawn documents.                                    *)

\* n >= 1 times the token 'a', separated by spaces.
RepeatedTokenText(n) ==
    SubSeq([ i \in 1..(2 * n - 1) |-> IF i % 2 = 1 THEN "a" ELSE " " ], 1, 2 * n - 1)

\* The least number of tokens that chunk_documents cuts into m >= 2 chunks.
TokensForChunks(m) ==
    (m - 2) * Step(DefaultChunkSize, DefaultOverlap) + DefaultChunkSize + 1

\* Document ids, some of them containing the infix of a chunk id:
\* 'a', 'a_chunk_', 'a_chunk_000'.
DocIds == { << "a" >>, << "a" >> \o ChunkInfix, << "a" >> \o ChunkInfix \o << "0", "0", "0" >> }

\* Contents that give 0, 1 and 2 chunks.
DocContents == { << >>, << "a", ".", "B" >>, RepeatedTokenText(TokensForChunks(2)) }

Document(id, content) ==
    [ id |-> id, title |-> "Title", source |-> "test", content |-> content ]

SmallDocuments == { Document(id, content) : id \in DocIds, content \in DocContents }

\* A document of ManyChunks chunks, alone and beside a document whose id is
\* one of its chunk ids.
ManyChunksDocument == Document(<< "a" >>, RepeatedTokenText(TokensForChunks(ManyChunks)))

DocumentLists ==
    SeqsUpTo(SmallDocuments, MaxDocs)
        \cup { << Document(<< "a" >>, RepeatedTokenText(TokensForChunks(3))) >>,
               << ManyChunksDocument >>,
               << ManyChunksDocument,
                  Document(ChunkId(<< "a" >>, ManyChunks - 1), << "a" >>) >> }

InitDocs ==
    /\ documents \in DocumentLists
    /\ chunk_payload = None
    /\ index_payload = None
    /\ query = None
    /\ top_k = 0
    /\ retrieval_payload = None
    /\ clock = 0
    /\ pc = "chunk_documents"
    /\ InitChunkIdle
    /\ InitRunIdle

NextDocs ==
    \/ ChunkDocuments
    \/ Tick

SpecDocs == InitDocs /\ [][NextDocs]_vars

-----------------------------------------------------------------------------
(* build_mock_index, then retrieve_relevant_chunks, on a drawn chunk       *)
(* payload, query and top_k.                                               *)

\* The texts of the drawn chunks: '', 'a', 'b a b', 'c'.
IndexTexts == { << >>, << "a" >>, << "b", " ", "a", " ", "b" >>, << "c" >> }

\* The drawn queries: '', 'A', 'a b c?'.
Queries == { << >>, << "A" >>, << "a", " ", "b", " ", "c", "?" >> }

\* A chunk payload whose chunks have the given texts.
PayloadOfTexts(texts) ==
    LET cs == [ i \in 1..Len(texts) |->
                  [ chunk_id |-> ChunkId(<< "d" >>, i - 1),
                    doc_id |-> << "d" >>,
                    title |-> "Title",
                    text |-> texts[i],
                    token_count |-> Len(_tokenize(texts[i])) ] ]
    IN  [ chunks |-> cs, metrics |-> ChunkMetrics(<< Document(<< "d" >>, << >>) >>, cs, 0) ]

\* k in base 36, digits 0-9a-z: a different word for every k.
RECURSIVE Base36Chars(_)
Base36Chars(k) ==
    IF k < 36 THEN << (Digits \o Lowercase)[k + 1] >>
    ELSE Base36Chars(k \div 36) \o << (Digits \o Lowercase)[(k % 36) + 1] >>

\* The words for lo, lo + 1, ..., hi, separated by spaces.
RECURSIVE NumberedTokensText(_, _)
NumberedTokensText(lo, hi) ==
    IF lo = hi THEN Base36Chars(lo)
    ELSE NumberedTokensText(lo, (lo + hi) \div 2) \o << " " >>
            \o NumberedTokensText((lo + hi) \div 2 + 1, hi)

\* A long query beside two chunks that share the token '1' with it.
LongQueryTexts == << << "1", " ", "_" >>, << "1" >> >>

InitIndexSmall ==
    /\ chunk_payload \in { PayloadOfTexts(texts) : texts \in SeqsUpTo(IndexTexts, MaxChunks) }
    /\ query \in Queries
    /\ top_k \in 1..MaxTopK

InitIndexLongQuery ==
    /\ chunk_payload = PayloadOfTexts(LongQueryTexts)
    /\ \/ query = NumberedTokensText(1, LongQueryTokens) /\ top_k \in 1..2
       \/ query = NumberedTokensText(1, VeryLongQueryTokens) /\ top_k = 1

InitIndex ==
    /\ InitIndexSmall \/ InitIndexLongQuery
    /\ documents = None
    /\ index_payload = None
    /\ retrieval_payload = None
    /\ clock = 0
    /\ pc = "build_mock_index"
    /\ InitChunkIdle
    /\ InitRunIdle

NextIndex ==
    \/ BuildMockIndex
    \/ RetrieveRelevantChunks
    \/ Tick

SpecIndex == InitIndex /\ [][NextIndex]_vars

-----------------------------------------------------------------------------
(* Claims about _chunk_text. *)

\* The call has returned a list for a non-empty token sequence, within the
\* documented parameter range chunk_size >= 1, overlap >= 0.
ChunkReturned == cpc = "done" /\ tokens # << >> /\ chunk_size >= 1 /\ overlap >= 0

\* The fixed step the specification names, written out.
C1_Step == IF chunk_size - overlap >= 1 THEN chunk_size - overlap ELSE 1

\* The index of the first window whose end index k*s + c reaches the token count.
C1_Last ==
    CHOOSE k \in 0..Len(tokens) :
        /\ k * C1_Step + chunk_size >= Len(tokens)
        /\ \A j \in 0..(k - 1) : j * C1_Step + chunk_size < Len(tokens)

\* The windows T[k*s .. min(k*s + c, n) - 1] for k = 0 .. C1_Last, each joined.
C1_Windows ==
    [ k \in 1..(C1_Last + 1) |->
        Join(SubSeq(tokens, (k - 1) * C1_Step + 1,
                    Min((k - 1) * C1_Step + chunk_size, Len(tokens)))) ]

\* C1: for n >= 1 tokens, chunk_size >= 1 and overlap >= 0, _chunk_text returns
\* exactly the windows of chunk_size tokens at the starts 0, s, 2s, ... with
\* s = max(1, chunk_size - overlap), up to and including the first window whose
\* end reaches the token count: only the last chunk may be short, exactly one
\* chunk reaches the end, and 'alpha beta gamma alpha' with chunk_size 2 and
\* overlap 0 gives ['alpha beta', 'gamma alpha'].
C1_WindowsInOrder ==
    ChunkReturned =>
        /\ tokens = _tokenize(text)
        /\ chunks = C1_Windows
        /\ \A i \in 1..(Len(chunks) - 1) : Len(_tokenize(chunks[i])) = chunk_size
        /\ \A i \in 1..Len(chunks) :
              ((i - 1) * C1_Step + chunk_size >= Len(tokens)) <=> (i = Len(chunks))
        /\ (text = Scenario1Text /\ chunk_size = 2 /\ overlap = 0) =>
              chunks = << Join(<< Alpha, Beta >>), Join(<< Gamma, Alpha >>) >>

\* Reached: three or more chunks were returned and the last one is short.
C1_Witness ==
    /\ ChunkReturned
    /\ Len(chunks) >= 3
    /\ Len(_tokenize(chunks[Len(chunks)])) < chunk_size
    /\ overlap >= 1

\* The chunks with the tokens each shares with its predecessor removed, put
\* together again. Consecutive windows share min(overlap, chunk_size - 1) tokens.
RECURSIVE C2_DeOverlapped(_, _)
C2_DeOverlapped(cs, shared) ==
    IF cs = << >> THEN << >>
    ELSE C2_DeOverlapped(SubSeq(cs, 1, Len(cs) - 1), shared)
            \o (IF Len(cs) = 1
                THEN _tokenize(cs[1])
                ELSE SubSeq(_tokenize(cs[Len(cs)]), shared + 1, Len(_tokenize(cs[Len(cs)]))))

\* C2: for a non-empty token sequence, chunk_size >= 1 and overlap >= 0,
\* _chunk_text returns at least one chunk, and the chunks without their
\* overlapping prefixes, concatenated, are the original token sequence: no token
\* is lost and none is reordered.
C2_CoversAllTokens ==
    ChunkReturned =>
        /\ Len(chunks) >= 1
        /\ C2_DeOverlapped(chunks, Min(overlap, chunk_size - 1)) = _tokenize(text)

\* Reached: several overlapping chunks were returned.
C2_Witness ==
    /\ ChunkReturned
    /\ overlap >= 1
    /\ chunk_size > overlap
    /\ Len(chunks) >= 3

\* C3: _chunk_text terminates for every token sequence and every integer pair
\* (chunk_size, overlap): the call returns, the step is at least 1, the window
\* start grows on every iteration that goes on, and the loop body runs at most
\* once per token.
C3_Terminates ==
    /\ <>(cpc = "done")
    /\ [](cpc # "call" /\ tokens # << >> => step >= 1)
    /\ [](iterations <= Len(tokens))
    /\ [][cpc = "loop" /\ cpc' = "loop" => start' > start]_vars

\* Reached: with overlap >= chunk_size the loop ran token by token and returned.
C3_Witness ==
    /\ cpc = "done"
    /\ chunk_size >= 1
    /\ overlap >= chunk_size
    /\ iterations >= 3
    /\ iterations = Len(tokens)

-----------------------------------------------------------------------------
(* Claims about retrieve_relevant_chunks and build_mock_index.             *)

\* retrieve_relevant_chunks has returned.
Retrieved == pc \in { "generate_grounded_answer" }

\* The tokens of the query, and of the i-th index entry.
QueryTokens == Range(_tokenize(query))
EntryTokens(i) == Range(index_payload.entries[i].tokens)

\* |Q \cap E| and |Q \cup E| (taken as 1 when both sets are empty) for the
\* query tokens Q and the tokens E of entry i.
Shared(Q, i) == Cardinality(EntryTokens(i) \cap Q)
United(Q, i) ==
    IF Q \cup EntryTokens(i) = { } THEN 1
    ELSE Cardinality(Q) + Cardinality(EntryTokens(i) \ Q)

\* The index entry a retrieved item was made from (chunk ids are distinct in
\* the drawn payloads).
EntryOf(item) ==
    CHOOSE i \in 1..Len(index_payload.entries) :
        index_payload.entries[i].chunk_id = item.chunk_id

RetrievedItems == retrieval_payload.retrieved

\* The place of entry i in the retrieved list, 0 when it was not retrieved.
PlaceOf(i) ==
    IF \E p \in 1..Len(RetrievedItems) : EntryOf(RetrievedItems[p]) = i
    THEN CHOOSE p \in 1..Len(RetrievedItems) : EntryOf(RetrievedItems[p]) = i
    ELSE 0

Distance(a, b) == IF a >= b THEN a - b ELSE b - a

\* C4, as claimed: the reported score of every entry is exactly
\* |Q \cap E| / |Q \cup E|.
C4_ScoreIsExactJaccard ==
    Retrieved =>
        \A Q \in { QueryTokens }, p \in 1..Len(RetrievedItems) :
            RetrievedItems[p].score * United(Q, EntryOf(RetrievedItems[p]))
                = ScoreScale * Shared(Q, EntryOf(RetrievedItems[p]))

\* C4, amended: the reported score of every retrieved entry is
\* |Q \cap E| / |Q \cup E| (denominator 1 when both sets are empty) rounded to
\* four decimals, that is, the multiple of 0.0001 nearest to it; a query with
\* one token scores 0.5 against an entry that adds one token and 0 against an
\* entry that shares none.
C4_ScoreIsRoundedJaccard ==
    Retrieved =>
        \A Q \in { QueryTokens }, p \in 1..Len(RetrievedItems) :
            LET i == EntryOf(RetrievedItems[p])
                score == RetrievedItems[p].score
            IN  /\ 2 * Distance(ScoreScale * Shared(Q, i), score * United(Q, i)) <= United(Q, i)
                /\ score \in 0..ScoreScale
                /\ (Shared(Q, i) = 1 /\ United(Q, i) = 2) => score * 2 = ScoreScale
                /\ Shared(Q, i) = 0 => score = 0

\* Reached: an entry whose Jaccard value 1/3 has no exact four-decimal form
\* was scored, beside an entry that shares no token with the query.
C4_Witness ==
    /\ Retrieved
    /\ Len(RetrievedItems) >= 2
    /\ \E Q \in { QueryTokens } :
          /\ \E p \in 1..Len(RetrievedItems) :
                /\ Shared(Q, EntryOf(RetrievedItems[p])) = 1
                /\ United(Q, EntryOf(RetrievedItems[p])) = 3
          /\ \E p \in 1..Len(RetrievedItems) : Shared(Q, EntryOf(RetrievedItems[p])) = 0

\* C5: the retrieved list is in non-increasing order of reported score, and
\* entries of equal reported score keep the order they have in the index.
C5_DescendingAndStable ==
    Retrieved =>
        \A p, q \in 1..Len(RetrievedItems) :
            p < q =>
                /\ RetrievedItems[p].score >= RetrievedItems[q].score
                /\ RetrievedItems[p].score = RetrievedItems[q].score
                      => EntryOf(RetrievedItems[p]) < EntryOf(RetrievedItems[q])

\* Reached: a later entry was ranked first, before two entries of equal score.
C5_Witness ==
    /\ Retrieved
    /\ Len(RetrievedItems) >= 3
    /\ EntryOf(RetrievedItems[1]) > 1
    /\ RetrievedItems[1].score > RetrievedItems[2].score
    /\ RetrievedItems[2].score = RetrievedItems[3].score
    /\ RetrievedItems[2].score > 0

\* C6: ranking is monotonic in the exact Jaccard similarity: whenever
\* J(A) > J(B) for two index entries, B is retrieved only if A is, and then A is
\* placed before B, whatever their order in the index.
C6_MonotonicInJaccard ==
    Retrieved =>
        \A Q \in { QueryTokens } : \A a, b \in 1..Len(index_payload.entries) :
            (Shared(Q, a) * United(Q, b) > Shared(Q, b) * United(Q, a) /\ PlaceOf(b) > 0)
                => (PlaceOf(a) > 0 /\ PlaceOf(a) < PlaceOf(b))

\* The list retrieve_relevant_chunks returns when top_k is the number of
\* entries: the full ranking.
FullRanking ==
    retrieve_relevant_chunks(index_payload, query, Len(index_payload.entries), clock).retrieved

\* C7: for a positive top_k and an index of n entries, exactly min(top_k, n)
\* results are returned, they are the first min(top_k, n) entries of the full
\* ranking, retrieved_count is that number, and no entry is returned twice.
C7_ReturnsFirstTopK ==
    Retrieved =>
        /\ Len(RetrievedItems) = Min(top_k, Len(index_payload.entries))
        /\ retrieval_payload.metrics.retrieved_count = Min(top_k, Len(index_payload.entries))
        /\ \A full \in { FullRanking } :
              /\ Len(full) = Len(index_payload.entries)
              /\ RetrievedItems = SubSeq(full, 1, Min(top_k, Len(index_payload.entries)))
        /\ \A p, q \in 1..Len(RetrievedItems) :
              p # q => RetrievedItems[p].chunk_id # RetrievedItems[q].chunk_id

\* Reached: top_k is larger than the index, and all entries came back.
C7_Witness ==
    /\ Retrieved
    /\ Len(index_payload.entries) >= 2
    /\ top_k > Len(index_payload.entries)
    /\ Len(RetrievedItems) = Len(index_payload.entries)

\* best_score is the score of the first retrieved entry (0 when there is none),
\* and no entry of the index has a larger rounded score.
BestScoreIsFirstAndLargest(Q) ==
    /\ retrieval_payload.metrics.best_score
          = (IF Len(RetrievedItems) > 0 THEN RetrievedItems[1].score ELSE 0)
    /\ \A i \in 1..Len(index_payload.entries) :
          2 * (ScoreScale * Shared(Q, i) - retrieval_payload.metrics.best_score * United(Q, i))
              <= United(Q, i)

NoEntrySharesAToken(Q) ==
    \A i \in 1..Len(index_payload.entries) : Shared(Q, i) = 0

\* C8, as claimed: best_score is the score of the first retrieved entry, the
\* largest score of all entries, and it is 0 exactly when the index is empty or
\* no entry shares a token with the query.
C8_BestScoreZeroIffNothingShared ==
    Retrieved =>
        \A Q \in { QueryTokens } :
            /\ BestScoreIsFirstAndLargest(Q)
            /\ retrieval_payload.metrics.best_score = 0 <=> NoEntrySharesAToken(Q)

\* C8, amended: best_score is the score of the first retrieved entry, the
\* largest score of all entries; it is 0 when the index is empty or no entry
\* shares a token with the query, and it is 0 only then or when every entry's
\* Jaccard value is at most 0.00005, which rounds to 0.
C8_BestScoreIsLargest ==
    Retrieved =>
        \A Q \in { QueryTokens } :
            /\ BestScoreIsFirstAndLargest(Q)
            /\ NoEntrySharesAToken(Q) => retrieval_payload.metrics.best_score = 0
            /\ retrieval_payload.metrics.best_score = 0 =>
                  \A i \in 1..Len(index_payload.entries) :
                      2 * ScoreScale * Shared(Q, i) <= United(Q, i)

\* Reached: the best score belongs to an entry that is not the first of the
\* index, and a retrieved entry scores less.
C8_Witness ==
    /\ Retrieved
    /\ Len(RetrievedItems) >= 2
    /\ retrieval_payload.metrics.best_score > RetrievedItems[Len(RetrievedItems)].score
    /\ EntryOf(RetrievedItems[1]) > 1

\* build_mock_index has returned.
Indexed == pc \in { "retrieve_relevant_chunks", "generate_grounded_answer" }

\* C9: build_mock_index returns one entry per chunk, in chunk order, with the
\* chunk's chunk_id, doc_id, title and text; the entry's tokens are the distinct
\* tokens of the text, each once (none for a text without tokens);
\* vocabulary_size is the size of the union of the entries' token sets and
\* indexed_chunks the number of chunks.
C9_OneEntryPerChunk ==
    Indexed =>
        /\ Len(index_payload.entries) = Len(chunk_payload.chunks)
        /\ \A i \in 1..Len(chunk_payload.chunks) :
              /\ index_payload.entries[i].chunk_id = chunk_payload.chunks[i].chunk_id
              /\ index_payload.entries[i].doc_id = chunk_payload.chunks[i].doc_id
              /\ index_payload.entries[i].title = chunk_payload.chunks[i].title
              /\ index_payload.entries[i].text = chunk_payload.chunks[i].text
              /\ EntryTokens(i) = Range(_tokenize(chunk_payload.chunks[i].text))
              /\ \A j, k \in 1..Len(index_payload.entries[i].tokens) :
                    j # k => index_payload.entries[i].tokens[j] # index_payload.entries[i].tokens[k]
        /\ index_payload.metrics.vocabulary_size
              = Cardinality(UNION { EntryTokens(i) : i \in 1..Len(index_payload.entries) })
        /\ index_payload.metrics.indexed_chunks = Len(chunk_payload.chunks)

\* Reached: an index over a chunk without tokens and a chunk that repeats a
\* token.
C9_Witness ==
    /\ Indexed
    /\ Len(index_payload.entries) = 3
    /\ \E i \in 1..Len(index_payload.entries) :
          /\ index_payload.entries[i].tokens = << >>
    /\ \E i \in 1..Len(index_payload.entries) :
          /\ Len(_tokenize(index_payload.entries[i].text)) > Len(index_payload.entries[i].tokens)
    /\ index_payload.metrics.vocabulary_size >= 3

-----------------------------------------------------------------------------
(* Claims about chunk_documents. *)

\* chunk_documents has returned.
Chunked == pc \in { "build_mock_index", "retrieve_relevant_chunks", "generate_grounded_answer" }

\* The document and the position in it of every chunk, in the order of the
\* chunks: document d of the list contributes one pair <<d, k>> for each of its
\* chunks k = 0, 1, ...
RECURSIVE ChunkPlaces(_)
ChunkPlaces(d) ==
    IF d = 0 THEN << >>
    ELSE ChunkPlaces(d - 1)
            \o [ k \in 1..Len(_chunk_text(documents[d].content, DefaultChunkSize, DefaultOverlap))
                    |-> << d, k - 1 >> ]

\* The number a string of decimal digits denotes.
RECURSIVE DigitsValue(_)
DigitsValue(z) ==
    IF z = << >> THEN 0
    ELSE 10 * DigitsValue(SubSeq(z, 1, Len(z) - 1))
            + (CHOOSE v \in 0..9 : Digits[v + 1] = z[Len(z)])

\* z is k in decimal, zero-padded to three digits.
IsZeroPadded(z, k) ==
    /\ \A i \in 1..Len(z) : z[i] \in Range(Digits)
    /\ Len(z) >= 3
    /\ Len(z) > 3 => z[1] # "0"
    /\ DigitsValue(z) = k

\* C10: the k-th chunk (from 0) of a document with id d has the chunk_id
\* d + '_chunk_' + k zero-padded to three digits; when the ids of the documents
\* are pairwise distinct, so are the chunk_ids, also for ids that contain
\* '_chunk_' and for documents of 1000 chunks and more.
C10_ChunkIds ==
    Chunked =>
        /\ \A places \in { ChunkPlaces(Len(documents)) } :
              /\ Len(chunk_payload.chunks) = Len(places)
              /\ \A i \in 1..Len(places) :
                    \A id \in { chunk_payload.chunks[i].chunk_id }, d \in { documents[places[i][1]].id } :
                        /\ chunk_payload.chunks[i].doc_id = d
                        /\ Len(id) >= Len(d) + Len(ChunkInfix) + 3
                        /\ SubSeq(id, 1, Len(d)) = d
                        /\ SubSeq(id, Len(d) + 1, Len(d) + Len(ChunkInfix)) = ChunkInfix
                        /\ IsZeroPadded(SubSeq(id, Len(d) + Len(ChunkInfix) + 1, Len(id)),
                                        places[i][2])
        /\ (\A a, b \in 1..Len(documents) : a # b => documents[a].id # documents[b].id)
              => Cardinality({ chunk_payload.chunks[i].chunk_id : i \in 1..Len(chunk_payload.chunks) })
                    = Len(chunk_payload.chunks)

\* Reached: a document of two chunks was chunked beside a document whose id is
\* the chunk_id of its first chunk.
C10_Witness ==
    /\ Chunked
    /\ Len(documents) = 2
    /\ Len(chunk_payload.chunks) >= 3
    /\ chunk_payload.chunks[2].doc_id = documents[1].id
    /\ chunk_payload.chunks[1].chunk_id = documents[2].id
    /\ chunk_payload.chunks[3].doc_id = documents[2].id

-----------------------------------------------------------------------------
(* generate_grounded_answer and generate_baseline_answer. An answer text   *)
(* is a sequence of characters, "\n" the line break.                       *)

SnippetLength == 140

\* 'Using retrieved context for query: '
AnswerPrefix ==
    << "U", "s", "i", "n", "g", " ", "r", "e", "t", "r", "i", "e", "v", "e",
       "d", " ", "c", "o", "n", "t", "e", "x", "t", " ", "f", "o", "r", " ",
       "q", "u", "e", "r", "y", ":", " " >>

\* '\n\nThis response is grounded in retrieved chunks from the indexed corpus.'
AnswerSuffix ==
    << "\n", "\n", "T", "h", "i", "s", " ", "r", "e", "s", "p", "o", "n",
       "s", "e", " ", "i", "s", " ", "g", "r", "o", "u", "n", "d", "e", "d",
       " ", "i", "n", " ", "r", "e", "t", "r", "i", "e", "v", "e", "d", " ",
       "c", "h", "u", "n", "k", "s", " ", "f", "r", "o", "m", " ", "t", "h",
       "e", " ", "i", "n", "d", "e", "x", "e", "d", " ", "c", "o", "r", "p",
       "u", "s", "." >>

\* The answer of generate_baseline_answer.
BaselineAnswerText ==
    << "W", "i", "t", "h", "o", "u", "t", " ", "r", "e", "t", "r", "i", "e",
       "v", "a", "l", " ", "c", "o", "n", "t", "e", "x", "t", ",", " ", "t",
       "h", "i", "s", " ", "a", "n", "s", "w", "e", "r", " ", "i", "s", " ",
       "g", "e", "n", "e", "r", "i", "c", ":", " ", "K", "e", "s", "t", "r",
       "a", " ", "1", ".", "1", " ", "l", "i", "k", "e", "l", "y", " ", "i",
       "n", "c", "l", "u", "d", "e", "d", " ", "i", "m", "p", "r", "o", "v",
       "e", "m", "e", "n", "t", "s", " ", "i", "n", " ", "U", "I", ",", " ",
       "s", "c", "h", "e", "d", "u", "l", "i", "n", "g", ",", " ", "p", "l",
       "u", "g", "i", "n", "s", ",", " ", "r", "e", "l", "i", "a", "b", "i",
       "l", "i", "t", "y", ",", " ", "a", "n", "d", " ", "d", "o", "c", "u",
       "m", "e", "n", "t", "a", "t", "i", "o", "n", "." >>

\* sep.join(parts)
RECURSIVE JoinWith(_, _)
JoinWith(sep, parts) ==
    IF parts = << >> THEN << >>
    ELSE IF Len(parts) = 1 THEN parts[1]
    ELSE parts[1] \o sep \o JoinWith(sep, Tail(parts))

\* Mutant of Snippet: the whole text.
Snippet_WholeText(t) == t

\* item["text"][:140]
Snippet(t) == Slice(t, 0, SnippetLength)

\* f"- [{item['chunk_id']}] {snippet}..."
BulletPoint(item) ==
    << "-", " ", "[" >> \o item.chunk_id \o << "]", " " >> \o Snippet(item.text)
        \o << ".", ".", "." >>

\* Mutant of Citations: the documents of the retrieved chunks are cited.
Citations_DocIds(retrieved) == [ i \in 1..Len(retrieved) |-> retrieved[i].doc_id ]

\* [item["chunk_id"] for item in retrieved]
Citations(retrieved) == [ i \in 1..Len(retrieved) |-> retrieved[i].chunk_id ]

\* What generate_grounded_answer returns.
generate_grounded_answer(payload, now) ==
    [ query |-> payload.query,
      answer |-> AnswerPrefix \o payload.query \o << "\n" >>
                    \o JoinWith(<< "\n" >>,
                                [ i \in 1..Len(payload.retrieved) |-> BulletPoint(payload.retrieved[i]) ])
                    \o AnswerSuffix,
      citations |-> Citations(payload.retrieved),
      mode |-> "with_rag",
      timestamp |-> now ]

\* What generate_baseline_answer returns.
generate_baseline_answer(q, now) ==
    [ query |-> q,
      answer |-> BaselineAnswerText,
      citations |-> << >>,
      mode |-> "without_rag",
      timestamp |-> now ]

GenerateGroundedAnswer ==
    /\ pc = "generate_grounded_answer"
    /\ grounded_answer' = generate_grounded_answer(retrieval_payload, clock)
    /\ pc' = "evaluate_grounded_answer"
    /\ UNCHANGED opVarsButPc
    /\ UNCHANGED <<grounded_metrics, baseline_answer, baseline_metrics, previous>>
    /\ UNCHANGED <<chunkVars, sessionVars, taxiVars, storeVars, ingestVars, ctlVars>>

GenerateBaselineAnswer ==
    /\ pc = "generate_baseline_answer"
    /\ baseline_answer' = generate_baseline_answer(query, clock)
    /\ pc' = "evaluate_baseline_answer"
    /\ UNCHANGED opVarsButPc
    /\ UNCHANGED <<grounded_answer, grounded_metrics, baseline_metrics, previous>>
    /\ UNCHANGED <<chunkVars, sessionVars, taxiVars, storeVars, ingestVars, ctlVars>>

-----------------------------------------------------------------------------
(* evaluate_baseline_answer and evaluate_grounded_answer; grounding_score  *)
(* is in hundredths.                                                       *)

\* What evaluate_baseline_answer returns.
evaluate_baseline_answer(answer, now) ==
    [ mode |-> "without_rag",
      answer_token_count |-> Len(_tokenize(answer.answer)),
      citation_count |-> Len(answer.citations),
      grounding_score |-> 0,
      timestamp |-> now ]

\* Mutant of GroundingScore: the divisor is not floored at 1 but raised by 1.
GroundingScore_DivisorPlusOne(citation_count, retrieved_count) ==
    Round2(citation_count, retrieved_count + 1)

\* round(len(citations) / max(1, retrieved_count), 2)
GroundingScore(citation_count, retrieved_count) ==
    Round2(citation_count, Max(1, retrieved_count))

\* What evaluate_grounded_answer returns.
evaluate_grounded_answer(answer, payload, now) ==
    [ mode |-> "with_rag",
      answer_token_count |-> Len(_tokenize(answer.answer)),
      retrieved_count |-> Len(payload.retrieved),
      citation_count |-> Len(answer.citations),
      grounding_score |-> GroundingScore(Len(answer.citations), Len(payload.retrieved)),
      timestamp |-> now ]

EvaluateGroundedAnswer ==
    /\ pc = "evaluate_grounded_answer"
    /\ grounded_metrics' = evaluate_grounded_answer(grounded_answer, retrieval_payload, clock)
    /\ pc' = "persist_rag_artifacts"
    /\ UNCHANGED opVarsButPc
    /\ UNCHANGED <<grounded_answer, baseline_answer, baseline_metrics, previous>>
    /\ UNCHANGED <<chunkVars, sessionVars, taxiVars, storeVars, ingestVars, ctlVars>>

EvaluateBaselineAnswer ==
    /\ pc = "evaluate_baseline_answer"
    /\ baseline_metrics' = evaluate_baseline_answer(baseline_answer, clock)
    /\ pc' = "persist_baseline_artifacts"
    /\ UNCHANGED opVarsButPc
    /\ UNCHANGED <<grounded_answer, grounded_metrics, baseline_answer, previous>>
    /\ UNCHANGED <<chunkVars, sessionVars, taxiVars, storeVars, ingestVars, ctlVars>>

-----------------------------------------------------------------------------
(* The artifact store. A directory is <<base, run_id>>, a file             *)
(* <<base, run_id, name>>; `files` maps each file to the document dumped   *)
(* into it, `writes` lists the files in the order they were written.       *)

\* os.getenv("RAG_ARTIFACTS_DIR", "/app/storage/rag_artifacts")
ArtifactsBase == "/app/storage/rag_artifacts"

\* getattr(context, "run_id", "local")
RunIdOf(context_run_id) == IF context_run_id = None THEN "local" ELSE context_run_id

\* Mutant of _artifact_dir: one directory for the runs.
_artifact_dir_Shared(context_run_id) == << ArtifactsBase, "local" >>

\* Path(base) / run_id
_artifact_dir(context_run_id) == << ArtifactsBase, RunIdOf(context_run_id) >>

\* _artifact_dir(context) / f"{name}.json"
Destination(context_run_id, name) == _artifact_dir(context_run_id) \o << name \o ".json" >>

\* The record of one call of open(destination, "w"): the context that made it
\* and the destination.
Written(context_run_id, name) ==
    [ context |-> context_run_id, destination |-> Destination(context_run_id, name) ]

\* open(destination, "w") and json.dump(payload, ...): the file holds the
\* payload, whatever it held before.
Dumped(fs, destination, payload) ==
    [ f \in DOMAIN fs \cup { destination } |-> IF f = destination THEN payload ELSE fs[f] ]

\* Mutant of RagArtifact: the whole chunk and index payloads in the place of
\* their metrics.
RagArtifact_WholePayloads(chunks_out, index_out, retrieval_out, answer_out, metrics_out) ==
    [ chunk_metrics |-> chunks_out,
      index_metrics |-> index_out,
      retrieval |-> retrieval_out,
      answer |-> answer_out,
      metrics |-> metrics_out ]

\* The payload of persist_rag_artifacts.
RagArtifact(chunks_out, index_out, retrieval_out, answer_out, metrics_out) ==
    [ chunk_metrics |-> chunks_out.metrics,
      index_metrics |-> index_out.metrics,
      retrieval |-> retrieval_out,
      answer |-> answer_out,
      metrics |-> metrics_out ]

\* The payload of persist_baseline_artifacts.
BaselineArtifact(answer_out, metrics_out) ==
    [ answer |-> answer_out, metrics |-> metrics_out ]

WithRagName == "with_rag_artifacts"
WithoutRagName == "without_rag_artifacts"
SessionName == "interactive_session_artifacts"

PersistRagArtifacts ==
    /\ pc = "persist_rag_artifacts"
    /\ dirs' = dirs \cup { _artifact_dir(run_id) }
    /\ files' = Dumped(files, Destination(run_id, WithRagName),
                       RagArtifact(chunk_payload, index_payload, retrieval_payload,
                                   grounded_answer, grounded_metrics))
    /\ writes' = Append(writes, Written(run_id, WithRagName))
    /\ pc' = "with_rag_done"
    /\ UNCHANGED <<opVarsButPc, answerVars, run_id, chunkVars, sessionVars, taxiVars, ingestVars, ctlVars>>

PersistBaselineArtifacts ==
    /\ pc = "persist_baseline_artifacts"
    /\ dirs' = dirs \cup { _artifact_dir(run_id) }
    /\ files' = Dumped(files, Destination(run_id, WithoutRagName),
                       BaselineArtifact(baseline_answer, baseline_metrics))
    /\ writes' = Append(writes, Written(run_id, WithoutRagName))
    /\ pc' = "without_rag_done"
    /\ UNCHANGED <<opVarsButPc, answerVars, run_id, chunkVars, sessionVars, taxiVars, ingestVars, ctlVars>>

-----------------------------------------------------------------------------
(* The answer, evaluation and persist ops on a retrieval payload that      *)
(* retrieve_relevant_chunks made from drawn chunk texts, and the baseline  *)
(* ops on a drawn query.                                                   *)

\* A text of n characters: 'a a a ...'.
TextOfLength(n) == SubSeq([ i \in 1..n |-> IF i % 2 = 1 THEN "a" ELSE " " ], 1, n)

\* Chunk texts: '', 'a b', one of exactly SnippetLength characters and one of
\* one character more.
AnswerTexts ==
    { << >>, << "a", " ", "b" >>, TextOfLength(SnippetLength), TextOfLength(SnippetLength + 1) }

\* Queries: '' and 'a b?'.
AnswerQueries == { << >>, << "a", " ", "b", "?" >> }

\* The run_id of the context: missing, or one of two.
ContextRunIds == { None, "run-1", "run-2" }

InitGrounded ==
    /\ chunk_payload \in { PayloadOfTexts(texts) : texts \in SeqsUpTo(AnswerTexts, MaxRetrieved) }
    /\ index_payload = build_mock_index(chunk_payload, 0)
    /\ query \in AnswerQueries
    /\ top_k \in { 1, MaxRetrieved }
    /\ retrieval_payload = retrieve_relevant_chunks(index_payload, query, top_k, 0)
    /\ pc = "generate_grounded_answer"

InitBaseline ==
    /\ chunk_payload = None
    /\ index_payload = None
    /\ query \in AnswerQueries
    /\ top_k = 0
    /\ retrieval_payload = None
    /\ pc = "generate_baseline_answer"

InitAnswer ==
    /\ InitGrounded \/ InitBaseline
    /\ documents = None
    /\ clock = 0
    /\ grounded_answer = None
    /\ grounded_metrics = None
    /\ baseline_answer = None
    /\ baseline_metrics = None
    /\ previous = << >>
    /\ run_id \in { None, "run-1" }
    /\ dirs = { }
    /\ files = << >>
    /\ writes = << >>
    /\ DEFAULT_DOCS = EmbeddedDocs
    /\ response = NoResponse
    /\ queries = << >>
    /\ session_payload = None
    /\ staging = << >>
    /\ main = << >>
    /\ RAG_SOURCE_URL = Unset
    /\ log = << >>
    /\ job = None
    /\ raised = None
    /\ runs = << >>
    /\ InitChunkIdle

NextAnswer ==
    \/ GenerateGroundedAnswer
    \/ EvaluateGroundedAnswer
    \/ PersistRagArtifacts
    \/ GenerateBaselineAnswer
    \/ EvaluateBaselineAnswer
    \/ PersistBaselineArtifacts
    \/ Tick

SpecAnswer == InitAnswer /\ [][NextAnswer]_vars

-----------------------------------------------------------------------------
(* Claims about generate_grounded_answer. *)

\* generate_grounded_answer has returned.
Answered == pc \in { "evaluate_grounded_answer", "persist_rag_artifacts", "with_rag_done" }

\* The text s cut at its line breaks.
Lines(s) ==
    LET breaks == { i \in 1..Len(s) : s[i] = "\n" }
        Break(k) == IF k = 0 THEN 0
                    ELSE IF k > Cardinality(breaks) THEN Len(s) + 1
                    ELSE CHOOSE i \in breaks : Cardinality({ j \in breaks : j < i }) = k - 1
    IN  [ k \in 1..(Cardinality(breaks) + 1) |-> SubSeq(s, Break(k - 1) + 1, Break(k) - 1) ]

IsBulletLine(line) == Len(line) >= 3 /\ SubSeq(line, 1, 3) = << "-", " ", "[" >>

\* C11: the answer of generate_grounded_answer has exactly one bullet line per
\* retrieved chunk, in retrieval order; the line of a chunk is '- [', its
\* chunk_id, '] ', the first 140 characters of its text and '...'; citations is
\* the list of the chunk_ids of the retrieved chunks in retrieval order; the mode
\* is 'with_rag'.
C11_OneBulletPerRetrievedChunk ==
    Answered =>
        /\ grounded_answer.mode = "with_rag"
        /\ Len(grounded_answer.citations) = Len(RetrievedItems)
        /\ \A i \in 1..Len(RetrievedItems) :
              grounded_answer.citations[i] = RetrievedItems[i].chunk_id
        /\ \A bullets \in { SelectSeq(Lines(grounded_answer.answer), IsBulletLine) } :
              /\ Len(bullets) = Len(RetrievedItems)
              /\ \A i \in 1..Len(RetrievedItems) :
                    bullets[i] = << "-", " ", "[" >> \o RetrievedItems[i].chunk_id \o << "]", " " >>
                                    \o SubSeq(RetrievedItems[i].text, 1,
                                              Min(140, Len(RetrievedItems[i].text)))
                                    \o << ".", ".", "." >>

\* Reached: an answer over two chunks, the first ranked one being the second of
\* the index and longer than 140 characters.
C11_Witness ==
    /\ Answered
    /\ Len(RetrievedItems) = 2
    /\ Len(RetrievedItems[1].text) > 140
    /\ EntryOf(RetrievedItems[1]) = 2
    /\ Len(grounded_answer.citations) = 2

-----------------------------------------------------------------------------
(* ingest_documents and build_query. `log` holds the messages of           *)
(* ingest_documents.                                                       *)

Whitespace == { " ", "\t", "\n", "\r" }

\* str.strip()
Strip(s) ==
    LET kept == { i \in 1..Len(s) : s[i] \notin Whitespace }
    IN  IF kept = { } THEN << >>
        ELSE SubSeq(s, MinOf(kept), 0 - MinOf({ 0 - i : i \in kept }))

\* What requests.get(...) and response.raise_for_status() can do: raise a
\* connection error, raise a timeout, raise for an error status, or succeed.
FetchOutcomes == { "ConnectionError", "Timeout", "HTTPError", "ok" }

\* os.getenv("RAG_SOURCE_URL", "").strip()
ExternalUrl(variable) == Strip(Getenv(variable, << >>))

ExternalDocument(external_url, response_text) ==
    [ id |-> ExternalSourceId,
      title |-> "External Source Document",
      source |-> external_url,
      content |-> response_text ]

\* Mutant of Ingested: the external document is put first.
Ingested_ExternalFirst(defaults, external_url, outcome, response_text) ==
    IF external_url # << >> /\ outcome = "ok"
    THEN << ExternalDocument(external_url, response_text) >> \o defaults
    ELSE defaults

\* The list ingest_documents returns: a copy of DEFAULT_DOCS, with the external
\* document appended when there is a URL and the fetch succeeded.
Ingested(defaults, external_url, outcome, response_text) ==
    IF external_url # << >> /\ outcome = "ok"
    THEN defaults \o << ExternalDocument(external_url, response_text) >>
    ELSE defaults

\* DEFAULT_DOCS after ingest_documents: documents = list(DEFAULT_DOCS) is a
\* copy, so the append leaves DEFAULT_DOCS as it was.
DefaultsAfterIngest(defaults, external_url, outcome, response_text) == defaults

\* The messages ingest_documents logs.
IngestLog(external_url, outcome, document_count) ==
    (IF external_url = << >> THEN << >>
     ELSE << [ level |-> "info", message |-> "Attempting external ingestion", detail |-> external_url ] >>
            \o (IF outcome = "ok"
                THEN << [ level |-> "info", message |-> "External source ingested successfully",
                          detail |-> None ] >>
                ELSE << [ level |-> "warning",
                          message |-> "External ingestion failed; continuing with embedded docs",
                          detail |-> outcome ] >>))
        \o << [ level |-> "info", message |-> "Ingested documents", detail |-> document_count ] >>

\* The response texts of a fetch that succeeds: '' and 'c D'.
ResponseTexts == { << >>, << "c", " ", "D" >> }

IngestDocuments ==
    /\ pc = "ingest_documents"
    /\ \E outcome \in FetchOutcomes, response_text \in ResponseTexts :
          /\ response' = IF ExternalUrl(RAG_SOURCE_URL) = << >> THEN NoResponse
                         ELSE [ outcome |-> outcome, text |-> response_text ]
          /\ documents' = Ingested(DEFAULT_DOCS, ExternalUrl(RAG_SOURCE_URL), outcome, response_text)
          /\ DEFAULT_DOCS' = DefaultsAfterIngest(DEFAULT_DOCS, ExternalUrl(RAG_SOURCE_URL),
                                                 outcome, response_text)
          /\ log' = log \o IngestLog(ExternalUrl(RAG_SOURCE_URL), outcome, Len(documents'))
    /\ pc' = "chunk_documents"
    /\ UNCHANGED <<chunk_payload, index_payload, query, top_k, retrieval_payload, clock>>
    /\ UNCHANGED <<answerVars, storeVars, RAG_SOURCE_URL, ctlVars, chunkVars, sessionVars, taxiVars>>

\* The default of the parameter top_k of retrieve_relevant_chunks.
DefaultTopK == 3

\* build_query returns DEFAULT_QUERY; the job calls retrieve_relevant_chunks
\* with it and the default top_k.
BuildQuery ==
    /\ pc = "build_query"
    /\ query' = DEFAULT_QUERY
    /\ top_k' = DefaultTopK
    /\ pc' = IF job = "chat_with_rag_job" THEN "ingest_documents" ELSE "generate_baseline_answer"
    /\ UNCHANGED <<documents, chunk_payload, index_payload, retrieval_payload, clock>>
    /\ UNCHANGED <<chunkVars, runVars>>

-----------------------------------------------------------------------------
(* The jobs chat_with_rag_job and chat_without_rag_job, and the ops of the *)
(* RAG path called one after the other on drawn documents, query and       *)
(* top_k; a finished RAG path can be run a second time on the inputs of    *)
(* the first.                                                              *)

\* What a finished RAG path has produced.
Outputs ==
    [ documents |-> documents,
      query |-> query,
      top_k |-> top_k,
      chunk_payload |-> chunk_payload,
      index_payload |-> index_payload,
      retrieval_payload |-> retrieval_payload,
      grounded_answer |-> grounded_answer,
      grounded_metrics |-> grounded_metrics ]

\* The ops are called a second time on the same documents, query and top_k:
\* the outputs of the first execution are kept aside, the context is a new
\* one, the files written stay where they are.
Restart ==
    /\ pc = "with_rag_done"
    /\ job = None
    /\ previous = << >>
    /\ previous' = << Outputs >>
    /\ chunk_payload' = None
    /\ index_payload' = None
    /\ retrieval_payload' = None
    /\ grounded_answer' = None
    /\ grounded_metrics' = None
    /\ run_id' \in ContextRunIds \ { run_id }
    /\ pc' = "chunk_documents"
    /\ UNCHANGED <<documents, query, top_k, clock, baseline_answer, baseline_metrics>>
    /\ UNCHANGED <<dirs, files, writes, ingestVars, ctlVars, chunkVars, sessionVars, taxiVars>>

\* Well-formed documents: ids 'a' and 'b', contents of 0, 1 and 2 chunks.
PipelineDocuments ==
    { Document(<< "a" >>, << >>),
      Document(<< "a" >>, << "a", ".", "B" >>),
      Document(<< "b" >>, RepeatedTokenText(TokensForChunks(2))) }

\* Queries: '' and 'a b?'.
PipelineQueries == { << >>, << "a", " ", "b", "?" >> }

\* RAG_SOURCE_URL: unset, ' ', ' u '.
SourceUrls == { Unset, SetTo(<< " " >>), SetTo(<< " ", "u", " " >>) }

InitOutputsNone ==
    /\ chunk_payload = None
    /\ index_payload = None
    /\ retrieval_payload = None
    /\ grounded_answer = None
    /\ grounded_metrics = None
    /\ baseline_answer = None
    /\ baseline_metrics = None
    /\ previous = << >>
    /\ dirs = { }
    /\ files = << >>
    /\ writes = << >>
    /\ DEFAULT_DOCS = EmbeddedDocs
    /\ response = NoResponse
    /\ queries = << >>
    /\ session_payload = None
    /\ staging = << >>
    /\ main = << >>
    /\ log = << >>
    /\ raised = None
    /\ runs = << >>
    /\ InitChunkIdle

\* A job starts, at some time.
InitJob ==
    /\ job \in { "chat_with_rag_job", "chat_without_rag_job" }
    /\ pc = "build_query"
    /\ documents = None
    /\ query = None
    /\ top_k = 0
    /\ clock = MaxClock
    /\ RAG_SOURCE_URL \in SourceUrls
    /\ run_id \in { "run-1" }

\* The ops of the RAG path are called on drawn inputs.
InitCalls ==
    /\ job = None
    /\ pc = "chunk_documents"
    /\ documents \in SeqsUpTo(PipelineDocuments, MaxPipelineDocs)
    /\ query \in PipelineQueries
    /\ top_k \in { 1, DefaultTopK }
    /\ clock = 0
    /\ RAG_SOURCE_URL = Unset
    /\ run_id = None

Init ==
    /\ InitJob \/ InitCalls
    /\ InitOutputsNone

Next ==
    \/ BuildQuery
    \/ IngestDocuments
    \/ ChunkDocuments
    \/ BuildMockIndex
    \/ RetrieveRelevantChunks
    \/ GenerateGroundedAnswer
    \/ EvaluateGroundedAnswer
    \/ PersistRagArtifacts
    \/ GenerateBaselineAnswer
    \/ EvaluateBaselineAnswer
    \/ PersistBaselineArtifacts
    \/ Restart
    \/ Tick

Spec == Init /\ [][Next]_vars

-----------------------------------------------------------------------------
(* Claims about the jobs. *)

BaselineAnswered ==
    pc \in { "evaluate_baseline_answer", "persist_baseline_artifacts", "without_rag_done" }

\* The chunk_ids of the entries of the index the query was retrieved against.
IndexedChunkIds == { index_payload.entries[e].chunk_id : e \in 1..Len(index_payload.entries) }

\* C12: in every run of chunk_documents, build_mock_index,
\* retrieve_relevant_chunks and generate_grounded_answer, every chunk_id in the
\* citations of the grounded answer is the chunk_id of an entry of the index
\* the query was retrieved against; the baseline answer has no citations.
C12_CitationsAreIndexed ==
    /\ Answered =>
          \A i \in 1..Len(grounded_answer.citations) :
              grounded_answer.citations[i] \in IndexedChunkIds
    /\ BaselineAnswered => baseline_answer.citations = << >>

\* Reached: a grounded answer that cites some and not all of the chunks of the
\* index.
C12_Witness ==
    /\ Answered
    /\ Len(grounded_answer.citations) >= 1
    /\ Len(grounded_answer.citations) < Cardinality(IndexedChunkIds)

-----------------------------------------------------------------------------
(* The evaluators called on an answer and a retrieval result that are drawn *)
(* independently of each other: the answer is one generate_grounded_answer  *)
(* or generate_baseline_answer returns, the retrieval result one            *)
(* retrieve_relevant_chunks returns, possibly for another index.            *)

\* The retrieval results of the query over indexes of 0..MaxEvaluated chunks.
EvaluatedRetrievals ==
    { retrieve_relevant_chunks(build_mock_index(PayloadOfTexts(texts), 0), q, MaxEvaluated, 0) :
        texts \in SeqsUpTo({ << "a", " ", "b" >> }, MaxEvaluated), q \in AnswerQueries }

EvaluatedAnswers ==
    { generate_grounded_answer(payload, 0) : payload \in EvaluatedRetrievals }
       \cup { generate_baseline_answer(q, 0) : q \in AnswerQueries }

InitEvaluate ==
    /\ \/ /\ pc = "evaluate_grounded_answer"
          /\ grounded_answer \in EvaluatedAnswers
          /\ retrieval_payload \in EvaluatedRetrievals
          /\ baseline_answer = None
       \/ /\ pc = "evaluate_baseline_answer"
          /\ baseline_answer \in EvaluatedAnswers
          /\ retrieval_payload = None
          /\ grounded_answer = None
    /\ documents = None
    /\ chunk_payload = None
    /\ index_payload = None
    /\ query = None
    /\ top_k = MaxEvaluated
    /\ clock = 0
    /\ grounded_metrics = None
    /\ baseline_metrics = None
    /\ previous = << >>
    /\ run_id = None
    /\ dirs = { }
    /\ files = << >>
    /\ writes = << >>
    /\ DEFAULT_DOCS = EmbeddedDocs
    /\ response = NoResponse
    /\ queries = << >>
    /\ session_payload = None
    /\ staging = << >>
    /\ main = << >>
    /\ RAG_SOURCE_URL = Unset
    /\ log = << >>
    /\ job = None
    /\ raised = None
    /\ runs = << >>
    /\ InitChunkIdle

NextEvaluate ==
    \/ EvaluateGroundedAnswer
    \/ EvaluateBaselineAnswer
    \/ Tick

SpecEvaluate == InitEvaluate /\ [][NextEvaluate]_vars

\* C13: the grounding_score the evaluators report is at least 0 and at most 1
\* (here in hundredths) for every answer and retrieval result they are given;
\* evaluate_baseline_answer reports 0; evaluate_grounded_answer reports
\* citation_count = len(citations).
C13_GroundingScoreWithinBounds ==
    /\ pc = "persist_rag_artifacts" =>
          /\ grounded_metrics.grounding_score >= 0
          /\ grounded_metrics.grounding_score <= AverageScale
          /\ grounded_metrics.citation_count = Len(grounded_answer.citations)
    /\ pc = "persist_baseline_artifacts" =>
          /\ baseline_metrics.grounding_score = 0

-----------------------------------------------------------------------------
(* Claims about a second execution, degenerate inputs and the artifact.    *)

\* The record r without its timestamp.
ButTimestamp(r) == [ k \in DOMAIN r \ { "timestamp" } |-> r[k] ]

\* The ops that have returned in the current execution of the RAG path.
ChunkedAgain == pc \in { "build_mock_index", "retrieve_relevant_chunks", "generate_grounded_answer",
                         "evaluate_grounded_answer", "persist_rag_artifacts", "with_rag_done" }
IndexedAgain == ChunkedAgain /\ pc # "build_mock_index"
RetrievedAgain == IndexedAgain /\ pc # "retrieve_relevant_chunks"
AnsweredAgain == RetrievedAgain /\ pc # "generate_grounded_answer"
EvaluatedAgain == AnsweredAgain /\ pc # "evaluate_grounded_answer"

NoContent == \A d \in 1..Len(documents) : documents[d].content = << >>

\* C15: degenerate inputs do not raise and give empty outputs with zero-valued
\* metrics: documents without content (or no documents) give zero chunks with
\* avg_chunk_tokens 0; zero chunks give zero index entries and vocabulary_size
\* 0; an index without entries gives retrieved = [], retrieved_count 0 and
\* best_score 0; an empty retrieval gives an answer without citations and the
\* metrics citation_count 0 and grounding_score 0.
C15_DegenerateInputsGiveEmptyOutputs ==
    /\ (job = None /\ NoContent) => pc # "raised"
    /\ (job = None /\ NoContent /\ ChunkedAgain) =>
          /\ chunk_payload.chunks = << >>
          /\ chunk_payload.metrics.chunk_count = 0
          /\ chunk_payload.metrics.avg_chunk_tokens = 0
          /\ chunk_payload.metrics.document_count = Len(documents)
    /\ (IndexedAgain /\ chunk_payload.chunks = << >>) =>
          /\ index_payload.entries = << >>
          /\ index_payload.metrics.indexed_chunks = 0
          /\ index_payload.metrics.vocabulary_size = 0
    /\ (RetrievedAgain /\ index_payload.entries = << >>) =>
          /\ retrieval_payload.retrieved = << >>
          /\ retrieval_payload.metrics.retrieved_count = 0
          /\ retrieval_payload.metrics.best_score = 0
    /\ (AnsweredAgain /\ retrieval_payload.retrieved = << >>) =>
          /\ grounded_answer.citations = << >>
          /\ grounded_answer.mode = "with_rag"
    /\ (EvaluatedAgain /\ retrieval_payload.retrieved = << >>) =>
          /\ grounded_metrics.citation_count = 0
          /\ grounded_metrics.retrieved_count = 0
          /\ grounded_metrics.grounding_score = 0

\* Reached: the RAG path has finished on two documents without content.
C15_Witness ==
    /\ job = None
    /\ NoContent
    /\ Len(documents) = 2
    /\ pc = "with_rag_done"
    /\ grounded_metrics.grounding_score = 0
    /\ raised = None

\* The artifact persist_rag_artifacts has written in the current run.
WrittenRagArtifact == files[Destination(run_id, WithRagName)]

\* C16: the artifact persist_rag_artifacts writes has exactly the top-level
\* keys chunk_metrics, index_metrics, retrieval, answer and metrics, for every
\* input; chunk_metrics and index_metrics are the metrics of the chunk and
\* index payloads, retrieval is the retrieval payload (with its query), answer
\* the grounded answer (with its citations) and metrics the grounded metrics
\* (with mode 'with_rag'), each unmodified.
C16_ArtifactHasTheFiveSections ==
    pc = "with_rag_done" =>
        /\ Destination(run_id, WithRagName) \in DOMAIN files
        /\ DOMAIN WrittenRagArtifact
              = { "chunk_metrics", "index_metrics", "retrieval", "answer", "metrics" }
        /\ WrittenRagArtifact.chunk_metrics = chunk_payload.metrics
        /\ WrittenRagArtifact.index_metrics = index_payload.metrics
        /\ WrittenRagArtifact.retrieval = retrieval_payload
        /\ WrittenRagArtifact.retrieval.query = query
        /\ WrittenRagArtifact.answer = grounded_answer
        /\ WrittenRagArtifact.answer.citations = Citations(retrieval_payload.retrieved)
        /\ WrittenRagArtifact.metrics = grounded_metrics
        /\ WrittenRagArtifact.metrics.mode = "with_rag"

\* Reached: an artifact is written whose answer cites two chunks for a query
\* that is not empty.
C16_Witness ==
    /\ pc = "with_rag_done"
    /\ Len(WrittenRagArtifact.answer.citations) = 2
    /\ WrittenRagArtifact.retrieval.query # << >>

-----------------------------------------------------------------------------
(* Runs of the three jobs that execute at the same time, each with its own  *)
(* context, on one file system. Of a run only its persist op is modelled:  *)
(* the calls _write_json makes on the file system (mkdir, open, json.dump) *)
(* are the steps that interleave.                                          *)

Jobs == { "chat_with_rag_job", "chat_without_rag_job", "interactive_chat_session_job" }

\* The name the persist op of the job passes to _write_json.
ArtifactName(j) ==
    IF j = "chat_with_rag_job" THEN WithRagName
    ELSE IF j = "chat_without_rag_job" THEN WithoutRagName
    ELSE SessionName

\* What open(destination, "w") leaves in the file: nothing.
Truncated == [ size |-> 0 ]

\* The payload of the run, left abstract: the job and the context it is of.
PayloadOf(run) == [ job |-> run.job, context |-> run.run_id ]

\* path.mkdir(parents=True, exist_ok=True) in _artifact_dir
MakeArtifactDir ==
    \E r \in 1..Len(runs) :
        /\ runs[r].pc = "_artifact_dir"
        /\ dirs' = dirs \cup { _artifact_dir(runs[r].run_id) }
        /\ runs' = [ runs EXCEPT ![r].pc = "open" ]
        /\ UNCHANGED <<files, writes, run_id>>
        /\ UNCHANGED <<chunkVars, sessionVars, taxiVars, opVars, answerVars, ingestVars, job, raised>>

\* open(destination, "w", encoding="utf-8")
OpenDestination ==
    \E r \in 1..Len(runs) :
        /\ runs[r].pc = "open"
        /\ files' = Dumped(files, Destination(runs[r].run_id, ArtifactName(runs[r].job)), Truncated)
        /\ writes' = Append(writes, Written(runs[r].run_id, ArtifactName(runs[r].job)))
        /\ runs' = [ runs EXCEPT ![r].pc = "json.dump" ]
        /\ UNCHANGED <<dirs, run_id>>
        /\ UNCHANGED <<chunkVars, sessionVars, taxiVars, opVars, answerVars, ingestVars, job, raised>>

\* json.dump(payload, output_file, indent=2) and the end of the with block
JsonDump ==
    \E r \in 1..Len(runs) :
        /\ runs[r].pc = "json.dump"
        /\ files' = Dumped(files, Destination(runs[r].run_id, ArtifactName(runs[r].job)),
                           PayloadOf(runs[r]))
        /\ runs' = [ runs EXCEPT ![r].pc = "done" ]
        /\ UNCHANGED <<dirs, writes, run_id>>
        /\ UNCHANGED <<chunkVars, sessionVars, taxiVars, opVars, answerVars, ingestVars, job, raised>>

\* The runs have pairwise distinct run identifiers.
DistinctRunIds(rs) == \A r1, r2 \in 1..Len(rs) : r1 # r2 => rs[r1].run_id # rs[r2].run_id

InitRuns ==
    /\ runs \in { rs \in SeqsUpTo([ run_id : ContextRunIds, job : Jobs, pc : { "_artifact_dir" } ],
                                  MaxRuns) : Len(rs) >= 1 /\ DistinctRunIds(rs) }
    /\ dirs = { }
    /\ files = << >>
    /\ writes = << >>
    /\ run_id = None
    /\ job = None
    /\ raised = None
    /\ documents = None
    /\ chunk_payload = None
    /\ index_payload = None
    /\ query = None
    /\ top_k = 0
    /\ retrieval_payload = None
    /\ clock = 0
    /\ pc = "idle"
    /\ grounded_answer = None
    /\ grounded_metrics = None
    /\ baseline_answer = None
    /\ baseline_metrics = None
    /\ previous = << >>
    /\ DEFAULT_DOCS = EmbeddedDocs
    /\ response = NoResponse
    /\ queries = << >>
    /\ session_payload = None
    /\ staging = << >>
    /\ main = << >>
    /\ RAG_SOURCE_URL = Unset
    /\ log = << >>
    /\ InitChunkIdle

NextRuns ==
    \/ MakeArtifactDir
    \/ OpenDestination
    \/ JsonDump

SpecRuns == InitRuns /\ [][NextRuns]_vars

\* The run that has the context.
RunOf(context) == CHOOSE r \in 1..Len(runs) : runs[r].run_id = context

\* C17: under any interleaving of runs with distinct run identifiers, every
\* file a run opens for writing is in the directory named by its own run
\* identifier and carries the name of its job, one of the three distinct names
\* with_rag_artifacts.json, without_rag_artifacts.json and
\* interactive_session_artifacts.json; no file is opened by two runs, and no
\* file is opened twice; a run that has finished finds its own payload in its
\* file.
C17_RunsWriteUnderTheirOwnDirectory ==
    /\ \A w \in 1..Len(writes) :
          /\ SubSeq(writes[w].destination, 1, 2) = << ArtifactsBase, RunIdOf(writes[w].context) >>
          /\ _artifact_dir(writes[w].context) \in dirs
          /\ writes[w].destination[3] = ArtifactName(runs[RunOf(writes[w].context)].job) \o ".json"
          /\ \A v \in 1..Len(writes) :
                v # w => writes[v].destination # writes[w].destination
    /\ \A r1, r2 \in 1..Len(runs) :
          r1 # r2 => _artifact_dir(runs[r1].run_id) # _artifact_dir(runs[r2].run_id)
    /\ Cardinality({ ArtifactName(j) : j \in Jobs }) = 3
    /\ \A r \in 1..Len(runs) :
          runs[r].pc = "done" =>
              files[Destination(runs[r].run_id, ArtifactName(runs[r].job))] = PayloadOf(runs[r])

\* Reached: two runs of the same job have both opened their files, one has
\* finished while the other has not written its payload yet.
C17_Witness ==
    /\ Len(runs) >= 2
    /\ runs[1].job = runs[2].job
    /\ runs[1].pc = "json.dump"
    /\ runs[2].pc = "done"
    /\ Len(writes) >= 2

-----------------------------------------------------------------------------
(* ingest_documents called again and again, with RAG_SOURCE_URL unset,     *)
(* blank or set, and with every outcome of the fetch.                      *)

\* The calls of ingest_documents that have returned.
IngestCalls == Len(SelectSeq(log, LAMBDA entry : entry.message = "Ingested documents"))

\* ingest_documents is called once more, the environment being what it is
\* by then.
CallIngestAgain ==
    /\ pc = "chunk_documents"
    /\ IngestCalls < MaxIngests
    /\ RAG_SOURCE_URL' \in SourceUrls \cup { SetTo(<< >>) }
    /\ pc' = "ingest_documents"
    /\ UNCHANGED <<documents, chunk_payload, index_payload, query, top_k, retrieval_payload, clock>>
    /\ UNCHANGED <<answerVars, storeVars, DEFAULT_DOCS, log, response, ctlVars, chunkVars, sessionVars, taxiVars>>

InitIngest ==
    /\ pc = "ingest_documents"
    /\ RAG_SOURCE_URL \in SourceUrls \cup { SetTo(<< >>) }
    /\ job = "chat_with_rag_job"
    /\ run_id = "run-1"
    /\ documents = None
    /\ query = None
    /\ top_k = 0
    /\ clock = 0
    /\ InitOutputsNone

NextIngest ==
    \/ IngestDocuments
    \/ CallIngestAgain

SpecIngest == InitIngest /\ [][NextIngest]_vars

\* ingest_documents has returned.
IngestReturned == pc = "chunk_documents"

\* The warning of the call that has just returned, if it logged one.
LastWarnings ==
    { i \in { Len(log) - 1 } \cap (1..Len(log)) : log[i].level = "warning" }

\* C18: ingest_documents does not fail because of the external source. With
\* RAG_SOURCE_URL unset (or blank) it makes no request and returns exactly the
\* embedded default documents; when the fetch raises, times out or returns an
\* error status it logs a warning with the reason and returns exactly the
\* embedded default documents; when the fetch succeeds it returns the default
\* documents, in their order, followed by one document with id
\* 'external_source' that holds the response text. DEFAULT_DOCS is never
\* changed.
C18_IngestFallsBackToDefaults ==
    /\ DEFAULT_DOCS = EmbeddedDocs
    /\ raised = None
    /\ IngestReturned =>
          \A external_url \in { ExternalUrl(RAG_SOURCE_URL) } :
              /\ external_url = << >> =>
                    /\ documents = EmbeddedDocs
                    /\ response = NoResponse
                    /\ LastWarnings = { }
              /\ (external_url # << >> /\ response.outcome # "ok") =>
                    /\ documents = EmbeddedDocs
                    /\ LastWarnings # { }
                    /\ \A i \in LastWarnings : log[i].detail = response.outcome
              /\ (external_url # << >> /\ response.outcome = "ok") =>
                    /\ Len(documents) = Len(EmbeddedDocs) + 1
                    /\ SubSeq(documents, 1, Len(EmbeddedDocs)) = EmbeddedDocs
                    /\ documents[Len(documents)].id = ExternalSourceId
                    /\ documents[Len(documents)].source = external_url
                    /\ documents[Len(documents)].content = response.text
                    /\ LastWarnings = { }

\* Reached: a call whose fetch failed returns after a call whose fetch
\* succeeded.
C18_Witness ==
    /\ IngestReturned
    /\ IngestCalls = 2
    /\ ExternalUrl(RAG_SOURCE_URL) # << >>
    /\ response.outcome = "Timeout"
    /\ documents = EmbeddedDocs
    /\ \E i \in 1..Len(log) : log[i].message = "External source ingested successfully"

-----------------------------------------------------------------------------
(* The ops of the RAG path called on documents that lack a field.          *)

\* Documents without source, without id (with and without content), without
\* title, and without content; and a document with every field.
MalformedDocuments ==
    { [ id |-> << "a" >>, title |-> "Title", content |-> << "a", ".", "B" >> ],
      [ title |-> "Title", source |-> "test", content |-> << "a", ".", "B" >> ],
      [ title |-> "Title", source |-> "test", content |-> << >> ],
      [ id |-> << "a" >>, source |-> "test", content |-> << "a", ".", "B" >> ],
      [ id |-> << "a" >>, title |-> "Title", source |-> "test" ],
      Document(<< "b" >>, << "a", ".", "B" >>) }

InitMalformed ==
    /\ job = None
    /\ pc = "chunk_documents"
    /\ documents \in SeqsUpTo(MalformedDocuments, MaxMalformedDocs)
    /\ query = << "a", " ", "b", "?" >>
    /\ top_k \in { 1, DefaultTopK }
    /\ clock = 0
    /\ RAG_SOURCE_URL = Unset
    /\ run_id = None
    /\ InitOutputsNone

NextMalformed ==
    \/ ChunkDocuments
    \/ BuildMockIndex
    \/ RetrieveRelevantChunks
    \/ GenerateGroundedAnswer
    \/ EvaluateGroundedAnswer
    \/ PersistRagArtifacts
    \/ Tick

SpecMalformed == InitMalformed /\ [][NextMalformed]_vars

RequiredFields == { "id", "title", "source", "content" }

\* Some document lacks a required field.
SomeDocumentMalformed ==
    \E d \in 1..Len(documents) : ~(RequiredFields \subseteq DOMAIN documents[d])

\* C19: whenever chunk_documents is given a document that lacks one of id,
\* title, source and content, whatever its other fields, it raises and returns
\* no chunk payload: once it has run, the call has raised, and no later op
\* runs on its output.
C19_MalformedInputRaises ==
    (SomeDocumentMalformed /\ pc # "chunk_documents") =>
        /\ pc = "raised"
        /\ raised # None
        /\ chunk_payload = None

-----------------------------------------------------------------------------
(* _tokenize on drawn texts of lower-case and upper-case letters, digits,  *)
(* underscores, spaces and punctuation.                                    *)

TokenizeAlphabet == { "a", "B", "1", "_", " ", "." }

Tokenize ==
    /\ cpc = "_tokenize"
    /\ tokens' = _tokenize(text)
    /\ cpc' = "tokenized"
    /\ UNCHANGED <<text, chunk_size, overlap, step, start, chunks, iterations>>
    /\ UNCHANGED <<opVars, runVars>>

InitTokenize ==
    /\ text \in SeqsUpTo(TokenizeAlphabet, MaxTokenizeLen)
    /\ cpc = "_tokenize"
    /\ chunk_size = 0
    /\ overlap = 0
    /\ tokens = << >>
    /\ step = 0
    /\ start = 0
    /\ chunks = << >>
    /\ iterations = 0
    /\ InitOpsIdle

NextTokenize == Tokenize

SpecTokenize == InitTokenize /\ [][NextTokenize]_vars

\* The characters a token can have: [a-z0-9_].
TokenChars == Range(Lowercase) \cup Range(Digits) \cup { "_" }

\* The lower-cased text.
Lowered == [ i \in 1..Len(text) |-> lower(text[i]) ]

\* The places of the lower-cased text where a run of token characters starts.
RunStarts ==
    { i \in 1..Len(text) : Lowered[i] \in TokenChars /\ (i = 1 \/ Lowered[i - 1] \notin TokenChars) }

\* The place where the run that starts at i ends.
RunEnd(i) ==
    CHOOSE j \in i..Len(text) :
        /\ \A k \in i..j : Lowered[k] \in TokenChars
        /\ j = Len(text) \/ Lowered[j + 1] \notin TokenChars

\* The start of the k-th run.
KthStart(k) == CHOOSE i \in RunStarts : Cardinality({ j \in RunStarts : j < i }) = k - 1

\* C20: for every text, _tokenize returns, from left to right, the maximal
\* runs of letters, digits and underscores of the lower-cased text: there is
\* one token per run, the k-th token is the k-th run, every token is non-empty
\* and made of characters of [a-z0-9_] only, and a text that is empty or has
\* separators only gives the empty sequence.
C20_TokensAreTheMaximalRuns ==
    cpc = "tokenized" =>
        /\ Len(tokens) = Cardinality(RunStarts)
        /\ \A k \in 1..Len(tokens) :
              /\ tokens[k] = SubSeq(Lowered, KthStart(k), RunEnd(KthStart(k)))
              /\ tokens[k] # << >>
              /\ Range(tokens[k]) \subseteq TokenChars
        /\ (\A i \in 1..Len(text) : text[i] \in { " ", "." }) => tokens = << >>

\* Reached: a text with an upper-case letter and a separator between two
\* runs, the first of them of two characters.
C20_Witness ==
    /\ cpc = "tokenized"
    /\ Len(tokens) = 2
    /\ Len(tokens[1]) = 2
    /\ \E i \in 1..Len(text) : text[i] \in UppercaseLetters

\* C29: in every run of chat_with_rag_job, and whenever the ops are called
\* in its order, evaluate_grounded_answer gets the answer generated from the
\* retrieval result it is given: citation_count equals retrieved_count, and
\* the grounding_score (in hundredths) is 1.0 when at least one chunk was
\* retrieved and 0.0 when none was, never a value strictly between.
C29_GroundingScoreIsZeroOrOne ==
    EvaluatedAgain =>
        /\ grounded_metrics.citation_count = grounded_metrics.retrieved_count
        /\ grounded_metrics.retrieved_count = Len(retrieval_payload.retrieved)
        /\ grounded_metrics.retrieved_count >= 1 => grounded_metrics.grounding_score = AverageScale
        /\ grounded_metrics.retrieved_count = 0 => grounded_metrics.grounding_score = 0

\* Reached: chat_with_rag_job has evaluated an answer over three retrieved
\* chunks.
C29_Witness ==
    /\ job = "chat_with_rag_job"
    /\ EvaluatedAgain
    /\ grounded_metrics.retrieved_count = DefaultTopK
    /\ grounded_metrics.grounding_score = AverageScale

-----------------------------------------------------------------------------
(* run_session_with_rag and persist_session_artifacts, on a drawn index,   *)
(* batch of queries and top_k.                                             *)

MaxSessionChunks == 2    \* most chunks of the index drawn for a session
MaxBatch == 3            \* most queries of a drawn batch
MaxSessionTopK == 2      \* largest top_k drawn for run_session_with_rag

\* The length of the text quoted for a chunk in a session answer.
SessionSnippetLength == 100

\* {**entry, "score": round(overlap / union, 4)}, union = len(...) or 1.
SessionScored(entry, query_tokens) ==
    LET entry_tokens == Range(entry.tokens)
        overlapping == Cardinality(query_tokens \cap entry_tokens)
        union == IF Cardinality(query_tokens \cup entry_tokens) = 0
                 THEN 1
                 ELSE Cardinality(query_tokens \cup entry_tokens)
    IN  [ f \in DOMAIN entry \cup { "score" } |->
            IF f = "score" THEN Round4(overlapping, union) ELSE entry[f] ]

\* f"- [{item['chunk_id']}] {item['text'][:100]}..."
SessionBullet(item) ==
    << "-", " ", "[" >> \o item.chunk_id \o << "]", " " >>
        \o Slice(item.text, 0, SessionSnippetLength) \o << ".", ".", "." >>

\* The element that the loop of run_session_with_rag appends for one query.
SessionResult(index, q, k) ==
    LET query_tokens == Range(_tokenize(q))
        scored == [ i \in 1..Len(index.entries) |-> SessionScored(index.entries[i], query_tokens) ]
        retrieved == TopK(SortByScore(scored), k)
    IN  [ query |-> q,
          retrieved_count |-> Len(retrieved),
          best_score |-> IF retrieved # << >> THEN retrieved[1].score ELSE 0,
          answer |-> JoinWith(<< "\n" >>, [ i \in 1..Len(retrieved) |-> SessionBullet(retrieved[i]) ]) ]

\* sum(item["best_score"] for item in session_results), in ten-thousandths.
RECURSIVE SumBestScores(_)
SumBestScores(session_results) ==
    IF session_results = << >> THEN 0
    ELSE session_results[1].best_score + SumBestScores(Tail(session_results))

\* Mutant of MeanBestScore: the sum is not divided.
MeanBestScore_Sum(session_results) == { SumBestScores(session_results) }

\* round(sum(...) / max(1, len(session_results)), 4), in ten-thousandths. The
\* best scores are floats, so their sum is within a few parts in 2^53 of the
\* sum of the decimals: the quotient rounds as the exact one does, except
\* where the exact quotient lies halfway between two ten-thousandths, and
\* there the float lies on either side.
MeanBestScore(session_results) ==
    LET total == SumBestScores(session_results)
        n == Max(1, Len(session_results))
    IN  IF 2 * (total % n) = n THEN { total \div n, total \div n + 1 }
        ELSE { RoundHalfEven(total, n, 1) }

\* What run_session_with_rag can return.
run_session_with_rag(index, qs, k, now) ==
    LET session_results == [ i \in 1..Len(qs) |-> SessionResult(index, qs[i], k) ]
    IN  { [ results |-> session_results,
            aggregate |-> [ query_count |-> Len(qs),
                            avg_best_score |-> avg,
                            timestamp |-> now ] ] : avg \in MeanBestScore(session_results) }

RunSessionWithRag ==
    /\ pc = "run_session_with_rag"
    /\ session_payload' \in run_session_with_rag(index_payload, queries, top_k, clock)
    /\ pc' = "persist_session_artifacts"
    /\ UNCHANGED <<opVarsButPc, queries, chunkVars, taxiVars, answerVars, storeVars, ingestVars, ctlVars>>

PersistSessionArtifacts ==
    /\ pc = "persist_session_artifacts"
    /\ dirs' = dirs \cup { _artifact_dir(run_id) }
    /\ files' = Dumped(files, Destination(run_id, SessionName), session_payload)
    /\ writes' = Append(writes, Written(run_id, SessionName))
    /\ pc' = "session_done"
    /\ UNCHANGED <<opVarsButPc, answerVars, run_id, chunkVars, sessionVars, taxiVars, ingestVars, ctlVars>>

SessionTopKs == (0 - 1)..MaxSessionTopK

InitSession ==
    /\ index_payload \in { build_mock_index(PayloadOfTexts(texts), 0) :
                              texts \in SeqsUpTo(IndexTexts, MaxSessionChunks) }
    /\ queries \in SeqsUpTo(Queries, MaxBatch)
    /\ top_k \in SessionTopKs
    /\ session_payload = None
    /\ documents = None
    /\ chunk_payload = None
    /\ query = None
    /\ retrieval_payload = None
    /\ clock = 0
    /\ pc = "run_session_with_rag"
    /\ grounded_answer = None
    /\ grounded_metrics = None
    /\ baseline_answer = None
    /\ baseline_metrics = None
    /\ previous = << >>
    /\ run_id = None
    /\ dirs = { }
    /\ files = << >>
    /\ writes = << >>
    /\ DEFAULT_DOCS = EmbeddedDocs
    /\ response = NoResponse
    /\ staging = << >>
    /\ main = << >>
    /\ RAG_SOURCE_URL = Unset
    /\ log = << >>
    /\ job = None
    /\ raised = None
    /\ runs = << >>
    /\ InitChunkIdle

NextSession ==
    \/ RunSessionWithRag
    \/ PersistSessionArtifacts

SpecSession == InitSession /\ [][NextSession]_vars

\* run_session_with_rag has returned.
SessionReturned == pc \in { "persist_session_artifacts", "session_done" }

\* The lines of a joined answer; the empty answer has none.
RECURSIVE AnswerLines(_)
AnswerLines(answer) ==
    IF answer = << >> THEN << >>
    ELSE IF \E i \in 1..Len(answer) : answer[i] = "\n"
         THEN LET p == MinOf({ i \in 1..Len(answer) : answer[i] = "\n" })
              IN  << SubSeq(answer, 1, p - 1) >> \o AnswerLines(SubSeq(answer, p + 1, Len(answer)))
         ELSE << answer >>

\* The chunk id that a line of a session answer shows between '- [' and the
\* first ']'.
CitedId(line) ==
    IF Len(line) >= 4 /\ \E i \in 4..Len(line) : line[i] = "]"
    THEN SubSeq(line, 4, MinOf({ i \in 4..Len(line) : line[i] = "]" }) - 1)
    ELSE << >>

\* The i-th result of the session agrees with retrieve_relevant_chunks on the
\* same index, query and top_k.
AgreesWithRetrieval(i) ==
    \A r \in { retrieve_relevant_chunks(index_payload, queries[i], top_k, clock) } :
        /\ session_payload.results[i].query = queries[i]
        /\ session_payload.results[i].retrieved_count = r.metrics.retrieved_count
        /\ session_payload.results[i].best_score = r.metrics.best_score
        /\ \A lines \in { AnswerLines(session_payload.results[i].answer) } :
              /\ Len(lines) = Len(r.retrieved)
              /\ \A j \in 1..Len(lines) :
                    j <= Len(r.retrieved) => CitedId(lines[j]) = r.retrieved[j].chunk_id

\* One result per query, in query order, each agreeing with the retrieval op.
PerQueryAgrees ==
    /\ Len(session_payload.results) = Len(queries)
    /\ session_payload.aggregate.query_count = Len(queries)
    /\ \A i \in 1..Len(queries) : i <= Len(session_payload.results) => AgreesWithRetrieval(i)

\* C28: every per-query result of run_session_with_rag agrees with
\* retrieve_relevant_chunks on the same index, query and top_k (chunk ids in
\* the answer in the same order, retrieved_count and best_score equal), there
\* is one result per query in query order, and avg_best_score is the mean of
\* the best scores rounded to 4 decimals: the ten-thousandth nearest to the
\* mean, 0 for an empty batch.
C28_SessionAgreesWithRetrieval ==
    SessionReturned =>
        /\ PerQueryAgrees
        /\ \A n \in { Max(1, Len(session_payload.results)) } :
           \A total \in { SumBestScores(session_payload.results) } :
              /\ 2 * (n * session_payload.aggregate.avg_best_score - total) <= n
              /\ 2 * (total - n * session_payload.aggregate.avg_best_score) <= n
        /\ queries = << >> => session_payload.aggregate.avg_best_score = 0

\* Reached: a session of three queries over two chunks with top_k = 1, whose
\* best scores differ and whose mean is not a ten-thousandth.
C28_Witness ==
    /\ SessionReturned
    /\ Len(queries) = MaxBatch
    /\ Len(index_payload.entries) = MaxSessionChunks
    /\ top_k = 1
    /\ \E i, j \in 1..Len(session_payload.results) :
          session_payload.results[i].best_score > session_payload.results[j].best_score
    /\ SumBestScores(session_payload.results) % Len(queries) # 0

\* C28 as stated: avg_best_score is the mean of the per-query best scores.
C28_AvgIsTheMean ==
    SessionReturned =>
        /\ PerQueryAgrees
        /\ Max(1, Len(session_payload.results)) * session_payload.aggregate.avg_best_score
              = SumBestScores(session_payload.results)

-----------------------------------------------------------------------------
(* postgres_taxi_ingest_job (dag_04_postgres_taxi.py): the ops of the job, *)
(* the staging and the main table of one taxi type, and the CSV files of   *)
(* the workspace. `runs` holds one record for every run of the job that    *)
(* has been launched: the file it is for, what the download URL serves for *)
(* it, the state of each of its steps and the values its ops returned.     *)
(* `files` maps the name of a file of the workspace to what it holds.      *)
(* A table that does not exist yet is modelled as an empty one: the ops    *)
(* that read or write a table run after create_taxi_tables of their run.   *)

MaxTaxiRuns == 2     \* most runs of the job, one after the other
MaxFaults == 1       \* most failures of the network, the database or the file system

\* SQL NULL, and a value that is not NULL.
Null == << >>
Value(v) == << v >>

\* COALESCE(column, '') on a text value.
Coalesce(v) == IF v = Null THEN "" ELSE v[1]

\* COALESCE(CAST(column AS text), '') on a whole-valued double precision.
CoalesceNumber(v) == IF v = Null THEN "" ELSE ToString(v[1])

\* md5, treated as free of collisions: a different digest for every input.
md5(s) == "md5(" \o s \o ")"

\* The value that the UPDATE of add_unique_id_and_filename gives unique_row_id.
UniqueRowId(row) ==
    md5(Coalesce(row.VendorID) \o Coalesce(row.pickup_datetime) \o Coalesce(row.dropoff_datetime)
        \o Coalesce(row.PULocationID) \o Coalesce(row.DOLocationID)
        \o CoalesceNumber(row.fare_amount) \o CoalesceNumber(row.trip_distance))

\* f"{taxi}_tripdata_{year}-{month}.csv"
TaxiFilename(taxi, year, month) == taxi \o "_tripdata_" \o year \o "-" \o month \o ".csv"

\* A file that holds a header line and the given rows, and a file of no bytes.
CsvOf(rows) == << rows >>
ZeroBytes == << >>

\* The row that to_sql appends for a line of the CSV: the columns of the file,
\* unique_row_id and filename NULL.
StagedRow(row) ==
    [ f \in DOMAIN row \cup { "unique_row_id", "filename" } |->
        IF f \in DOMAIN row THEN row[f] ELSE Null ]

\* pd.read_csv(filename, chunksize=chunk_size): the rows in batches of
\* chunk_size, the last one shorter.
RECURSIVE ReadCsvChunks(_, _)
ReadCsvChunks(rows, size) ==
    IF rows = << >> THEN << >>
    ELSE << SubSeq(rows, 1, Min(size, Len(rows))) >>
            \o ReadCsvChunks(SubSeq(rows, Min(size, Len(rows)) + 1, Len(rows)), size)

\* The rows that to_sql appends for the first k batches.
RECURSIVE BatchesStaged(_, _)
BatchesStaged(batches, k) ==
    IF k = 0 THEN << >>
    ELSE BatchesStaged(batches, k - 1)
            \o [ i \in 1..Len(batches[k]) |-> StagedRow(batches[k][i]) ]

\* Mutant of Loaded: the staging table is not truncated.
Loaded_NotTruncated(table, batches, k) == table \o BatchesStaged(batches, k)

\* The staging table after TRUNCATE and the to_sql of the first k batches.
Loaded(table, batches, k) == BatchesStaged(batches, k)

\* rows_loaded after the first k batches.
RECURSIVE RowsLoaded(_, _)
RowsLoaded(batches, k) ==
    IF k = 0 THEN 0 ELSE RowsLoaded(batches, k - 1) + Len(batches[k])

\* The staging table after the UPDATE of add_unique_id_and_filename.
Tagged(table, filename) ==
    [ i \in 1..Len(table) |->
        [ table[i] EXCEPT !.unique_row_id = Value(UniqueRowId(table[i])),
                          !.filename = Value(filename) ] ]

\* Mutant of Merged: a staged row replaces the row of main that has its id.
RECURSIVE Merged_Replacing(_, _)
Merged_Replacing(table, staged) ==
    IF staged = << >> THEN table
    ELSE Merged_Replacing(
            IF \E i \in 1..Len(table) : table[i].unique_row_id = staged[1].unique_row_id
            THEN [ i \in 1..Len(table) |->
                     IF table[i].unique_row_id = staged[1].unique_row_id THEN staged[1] ELSE table[i] ]
            ELSE Append(table, staged[1]),
            Tail(staged))

\* The main table after INSERT INTO main SELECT * FROM staging ON CONFLICT
\* (unique_row_id) DO NOTHING: a staged row is appended unless a row of main,
\* or a row inserted before it, has its unique_row_id.
RECURSIVE Merged(_, _)
Merged(table, staged) ==
    IF staged = << >> THEN table
    ELSE Merged(
            IF \E i \in 1..Len(table) : table[i].unique_row_id = staged[1].unique_row_id
            THEN table
            ELSE Append(table, staged[1]),
            Tail(staged))

\* Mutant of MergeResult: rows_merged counts the rows that were inserted.
MergeResult_Inserted(merge_info, inserted) ==
    [ status |-> "success", rows_merged |-> inserted ]

\* What merge_data_to_main_table returns, but for the table name and the
\* timestamp.
MergeResult(merge_info, inserted) ==
    [ status |-> "success", rows_merged |-> merge_info.rows_processed ]

\* The ops of the job and, for each, the ops whose outputs it is given.
Steps ==
    { "extract_taxi_data", "create_taxi_tables", "load_csv_to_staging",
      "add_unique_id_and_filename", "merge_data_to_main_table", "cleanup_files" }

Dependencies(s) ==
    CASE s = "extract_taxi_data" -> { }
      [] s = "create_taxi_tables" -> { }
      [] s = "load_csv_to_staging" -> { "extract_taxi_data", "create_taxi_tables" }
      [] s = "add_unique_id_and_filename" -> { "load_csv_to_staging", "create_taxi_tables", "extract_taxi_data" }
      [] s = "merge_data_to_main_table" -> { "add_unique_id_and_filename" }
      [] s = "cleanup_files" -> { "extract_taxi_data" }

\* A run that has been launched and has executed none of its steps.
NewRun(filename, remote) ==
    [ filename |-> filename,
      remote |-> remote,
      step |-> [ s \in Steps |-> "pending" ],
      num_rows |-> 0,
      merge_info |-> [ rows_processed |-> 0 ],
      result |-> << >>,
      inserted |-> << >>,
      faults |-> 0 ]

\* The step can execute: the steps it depends on have succeeded.
Ready(r, s) ==
    /\ runs[r].step[s] = "pending"
    /\ \A u \in Dependencies(s) : runs[r].step[u] = "ok"

\* The step will never execute: a step it depends on has failed, or will
\* never execute.
RECURSIVE Blocked(_, _)
Blocked(r, s) ==
    \E u \in Dependencies(s) : runs[r].step[u] = "failed" \/ Blocked(r, u)

\* The run is over.
Finished(r) == \A s \in Steps : runs[r].step[s] # "pending" \/ Blocked(r, s)

\* context.log.error(...) of an op of a run.
ErrorLogged(r, s) == Append(log, [ level |-> "error", op |-> s, run |-> r ])

\* The step has ended, with the status and the values given.
Ended(r, s, status, changes) ==
    [ runs EXCEPT ![r] = [ f \in DOMAIN runs[r] |->
        IF f = "step" THEN [ runs[r].step EXCEPT ![s] = status ]
        ELSE IF f \in DOMAIN changes THEN changes[f]
        ELSE runs[r][f] ] ]

NoChanges == [ f \in { } |-> 0 ]

\* The failures of the network, the database and the file system so far; one
\* more can happen; the record of one more in a run.
RECURSIVE Faults(_)
Faults(k) == IF k = 0 THEN 0 ELSE Faults(k - 1) + runs[k].faults
CanFail == Faults(Len(runs)) < MaxFaults
Fault(r) == [ faults |-> runs[r].faults + 1 ]

taxiFrame == <<chunkVars, opVars, answerVars, run_id, dirs, writes, DEFAULT_DOCS, RAG_SOURCE_URL,
               response, job, raised, sessionVars>>

\* extract_taxi_data: the download is written to the workspace; when the
\* URL cannot be opened there is no file, when the stream breaks the file has
\* been opened for writing and holds nothing.
ExtractTaxiData ==
    \E r \in DOMAIN runs : \E outcome \in { "ok", "not_opened", "broken_stream" } :
        /\ Ready(r, "extract_taxi_data")
        /\ outcome # "ok" => CanFail
        /\ files' = IF outcome = "ok" THEN Dumped(files, runs[r].filename, CsvOf(runs[r].remote))
                    ELSE IF outcome = "broken_stream" THEN Dumped(files, runs[r].filename, ZeroBytes)
                    ELSE files
        /\ log' = IF outcome = "ok" THEN log ELSE ErrorLogged(r, "extract_taxi_data")
        /\ runs' = IF outcome = "ok" THEN Ended(r, "extract_taxi_data", "ok", NoChanges)
                   ELSE Ended(r, "extract_taxi_data", "failed", Fault(r))
        /\ UNCHANGED <<staging, main, taxiFrame>>

\* create_taxi_tables: CREATE TABLE IF NOT EXISTS leaves the rows of a table
\* as they are.
CreateTaxiTables ==
    \E r \in DOMAIN runs : \E outcome \in { "ok", "error" } :
        /\ Ready(r, "create_taxi_tables")
        /\ outcome # "ok" => CanFail
        /\ log' = IF outcome = "ok" THEN log ELSE ErrorLogged(r, "create_taxi_tables")
        /\ runs' = IF outcome = "ok" THEN Ended(r, "create_taxi_tables", "ok", NoChanges)
                   ELSE Ended(r, "create_taxi_tables", "failed", Fault(r))
        /\ UNCHANGED <<staging, main, files, taxiFrame>>

\* The values of CSV_CHUNK_SIZE.
TaxiChunkSizes == { 1, 2, 50000 }

\* load_csv_to_staging. The TRUNCATE is committed before the file is opened,
\* and every batch is appended in a transaction of its own: the op raises
\* before the TRUNCATE (stop = -1), after it and `stop` batches, or returns
\* after the last batch.
LoadCsvToStaging ==
    \E r \in DOMAIN runs : \E size \in TaxiChunkSizes :
        /\ Ready(r, "load_csv_to_staging")
        /\ \A readable \in { runs[r].filename \in DOMAIN files /\ files[runs[r].filename] # ZeroBytes } :
           \A batches \in { IF readable THEN ReadCsvChunks(files[runs[r].filename][1], size) ELSE << >> } :
           \E stop \in (0 - 1)..Len(batches) :
              /\ (stop = 0 - 1 \/ (readable /\ stop < Len(batches))) => CanFail
              /\ staging' = IF stop = 0 - 1 THEN staging ELSE Loaded(staging, batches, stop)
              /\ IF readable /\ stop = Len(batches)
                 THEN /\ runs' = Ended(r, "load_csv_to_staging", "ok",
                                       [ num_rows |-> RowsLoaded(batches, stop) ])
                      /\ log' = log
                 ELSE /\ runs' = Ended(r, "load_csv_to_staging", "failed",
                                       IF readable \/ stop = 0 - 1 THEN Fault(r) ELSE NoChanges)
                      /\ log' = ErrorLogged(r, "load_csv_to_staging")
        /\ UNCHANGED <<main, files, taxiFrame>>

\* add_unique_id_and_filename: one UPDATE of every row of the staging table.
AddUniqueIdAndFilename ==
    \E r \in DOMAIN runs : \E outcome \in { "ok", "error" } :
        /\ Ready(r, "add_unique_id_and_filename")
        /\ outcome # "ok" => CanFail
        /\ IF outcome = "ok"
           THEN /\ staging' = Tagged(staging, runs[r].filename)
                /\ runs' = Ended(r, "add_unique_id_and_filename", "ok",
                                 [ merge_info |-> [ rows_processed |-> runs[r].num_rows ] ])
                /\ log' = log
           ELSE /\ staging' = staging
                /\ runs' = Ended(r, "add_unique_id_and_filename", "failed", Fault(r))
                /\ log' = ErrorLogged(r, "add_unique_id_and_filename")
        /\ UNCHANGED <<main, files, taxiFrame>>

\* merge_data_to_main_table: one INSERT; a staged row without unique_row_id
\* violates the primary key of main, and the statement inserts nothing.
MergeDataToMainTable ==
    \E r \in DOMAIN runs : \E outcome \in { "ok", "error" } :
        /\ Ready(r, "merge_data_to_main_table")
        /\ outcome # "ok" => CanFail
        /\ IF outcome = "ok" /\ \A i \in 1..Len(staging) : staging[i].unique_row_id # Null
           THEN /\ main' = Merged(main, staging)
                /\ runs' = Ended(r, "merge_data_to_main_table", "ok",
                                 [ result |-> << MergeResult(runs[r].merge_info,
                                                             Len(Merged(main, staging)) - Len(main)) >>,
                                   inserted |-> SubSeq(Merged(main, staging), Len(main) + 1,
                                                       Len(Merged(main, staging))) ])
                /\ log' = log
           ELSE /\ main' = main
                /\ runs' = Ended(r, "merge_data_to_main_table", "failed",
                                 IF outcome = "ok" THEN NoChanges ELSE Fault(r))
                /\ log' = ErrorLogged(r, "merge_data_to_main_table")
        /\ UNCHANGED <<staging, files, taxiFrame>>

\* cleanup_files: the file is removed when it exists; an exception of
\* os.remove is logged and the op returns.
CleanupFiles ==
    \E r \in DOMAIN runs : \E outcome \in { "ok", "error" } :
        /\ Ready(r, "cleanup_files")
        /\ outcome # "ok" => (CanFail /\ runs[r].filename \in DOMAIN files)
        /\ IF outcome = "ok"
           THEN /\ files' = [ f \in DOMAIN files \ { runs[r].filename } |-> files[f] ]
                /\ log' = log
                /\ runs' = Ended(r, "cleanup_files", "ok", NoChanges)
           ELSE /\ files' = files
                /\ log' = ErrorLogged(r, "cleanup_files")
                /\ runs' = Ended(r, "cleanup_files", "ok", Fault(r))
        /\ UNCHANGED <<staging, main, taxiFrame>>

\* The trips of the files: two that differ in where PULocationID ends and
\* DOLocationID begins, one without vendor and with another fare, one that
\* differs from the first in fare and distance only.
Trip(vendor, pu, do, fare, distance) ==
    [ VendorID |-> vendor,
      pickup_datetime |-> Value("2019-01-01 00:15:00"),
      dropoff_datetime |-> Value("2019-01-01 00:25:00"),
      PULocationID |-> pu,
      DOLocationID |-> do,
      fare_amount |-> fare,
      trip_distance |-> distance ]

TripA == Trip(Value("1"), Value("1"), Value("23"), Value(7), Value(2))
TripB == Trip(Value("1"), Value("12"), Value("3"), Value(7), Value(2))
TripC == Trip(Null, Value("1"), Value("23"), Value(9), Null)
TripD == Trip(Value("1"), Value("1"), Value("23"), Value(72), Null)

\* What the download URL of a month can serve.
TaxiFiles ==
    { << >>, << TripA, TripA >>, << TripC, TripA >>, << TripA, TripB >>,
      << TripD, TripC, TripB >> }

Months == { "01", "02" }

\* A run of the job is launched when the runs before it are over; the URL of
\* a month serves what it served before.
StartRun ==
    /\ Len(runs) < MaxTaxiRuns
    /\ \A q \in DOMAIN runs : Finished(q)
    /\ \E month \in Months : \E remote \in TaxiFiles :
          /\ \A q \in DOMAIN runs :
                runs[q].filename = TaxiFilename("yellow", "2019", month) => runs[q].remote = remote
          /\ runs' = Append(runs, NewRun(TaxiFilename("yellow", "2019", month), remote))
    /\ UNCHANGED <<staging, main, files, log, taxiFrame>>

InitTaxiIdle ==
    /\ documents = None
    /\ chunk_payload = None
    /\ index_payload = None
    /\ query = None
    /\ top_k = 0
    /\ retrieval_payload = None
    /\ clock = 0
    /\ pc = "idle"
    /\ grounded_answer = None
    /\ grounded_metrics = None
    /\ baseline_answer = None
    /\ baseline_metrics = None
    /\ previous = << >>
    /\ run_id = None
    /\ dirs = { }
    /\ writes = << >>
    /\ DEFAULT_DOCS = EmbeddedDocs
    /\ response = NoResponse
    /\ queries = << >>
    /\ session_payload = None
    /\ RAG_SOURCE_URL = Unset
    /\ job = "postgres_taxi_ingest_job"
    /\ raised = None
    /\ InitChunkIdle

InitTaxi ==
    /\ runs = << >>
    /\ staging = << >>
    /\ main = << >>
    /\ files = << >>
    /\ log = << >>
    /\ InitTaxiIdle

NextTaxi ==
    \/ StartRun
    \/ ExtractTaxiData
    \/ CreateTaxiTables
    \/ LoadCsvToStaging
    \/ AddUniqueIdAndFilename
    \/ MergeDataToMainTable
    \/ CleanupFiles

SpecTaxi == InitTaxi /\ [][NextTaxi]_vars

-----------------------------------------------------------------------------
(* Claims about the taxi ingest, on runs that follow one another. *)

\* The unique_row_id values of a table.
IdsOf(table) == { table[i].unique_row_id : i \in 1..Len(table) }

\* The step of a run has succeeded.
StepOk(r, s) == runs[r].step[s] = "ok"

\* The ids of the trips of the files whose runs have merged.
IdsMerged ==
    UNION { { Value(UniqueRowId(runs[r].remote[i])) : i \in 1..Len(runs[r].remote) } :
            r \in { q \in DOMAIN runs : StepOk(q, "merge_data_to_main_table") } }

\* The merge of run r takes place in this step.
Merges(r) ==
    /\ r \in DOMAIN runs
    /\ runs[r].step["merge_data_to_main_table"] = "pending"
    /\ runs'[r].step["merge_data_to_main_table"] = "ok"

OneRowPerMergedId ==
    /\ \A i, j \in 1..Len(main) : main[i].unique_row_id = main[j].unique_row_id => i = j
    /\ IdsOf(main) = IdsMerged

RerunLeavesMain ==
    \A r \in 1..MaxTaxiRuns :
        (/\ Merges(r)
         /\ \E q \in 1..(r - 1) : runs[q].filename = runs[r].filename
                                   /\ StepOk(q, "merge_data_to_main_table"))
        => main' = main

MainRowsAreKept ==
    /\ Len(main') >= Len(main)
    /\ \A i \in 1..Len(main) : i <= Len(main') => main'[i] = main[i]

\* C21: after any sequence of complete runs main holds exactly one row for
\* every unique_row_id that was staged and merged; the merge of a run for a
\* file that was merged before leaves main as it was; no step updates or
\* deletes a row of main.
C21_MergeIsIdempotent ==
    /\ []OneRowPerMergedId
    /\ [][RerunLeavesMain /\ MainRowsAreKept]_vars

\* Reached: two runs for the same file have merged, the file has two trips
\* with different ids, and main holds a row for each.
C21_Witness ==
    /\ Len(runs) = 2
    /\ runs[1].filename = runs[2].filename
    /\ StepOk(1, "merge_data_to_main_table")
    /\ StepOk(2, "merge_data_to_main_table")
    /\ Len(runs[2].remote) = 2
    /\ Len(main) = 2

\* The columns of a staged row that come from the file.
FileColumns(staged_row) == [ f \in DOMAIN staged_row \ { "unique_row_id", "filename" } |-> staged_row[f] ]

\* The last run has loaded and tagged, and has not merged yet.
LoadedAndTagged ==
    /\ runs # << >>
    /\ StepOk(Len(runs), "add_unique_id_and_filename")

\* C22: once load_csv_to_staging and add_unique_id_and_filename of a run
\* have succeeded, whatever the staging table held before, it holds the rows
\* of the file of the run and no other, the count that the load returned is
\* the number of rows of the file, and every staged row has a unique_row_id
\* and the name of the file as filename.
C22_StagingHoldsTheFile ==
    LoadedAndTagged =>
        \A run \in { runs[Len(runs)] } :
            /\ run.num_rows = Len(run.remote)
            /\ Len(staging) = Len(run.remote)
            /\ \A i \in 1..Len(staging) :
                  /\ i <= Len(run.remote) => FileColumns(staging[i]) = run.remote[i]
                  /\ staging[i].unique_row_id # Null
                  /\ staging[i].filename = Value(run.filename)

\* Reached: the second run has loaded and tagged a file of three rows, after
\* a first run that staged other rows of another file.
C22_Witness ==
    /\ Len(runs) = 2
    /\ LoadedAndTagged
    /\ StepOk(1, "add_unique_id_and_filename")
    /\ runs[1].remote # << >>
    /\ runs[1].filename # runs[2].filename
    /\ Len(runs[2].remote) = 3

\* C24: every merge that returns gives status 'success' and as rows_merged
\* the number of rows that the load of its run returned, whether or not rows
\* were skipped as duplicates; after the merge of the last run every
\* unique_row_id of the staging table is in main.
C24_MergeReportsRowsProcessed ==
    /\ \A r \in DOMAIN runs :
          StepOk(r, "merge_data_to_main_table") =>
              /\ Len(runs[r].result) = 1
              /\ \A result \in Range(runs[r].result) :
                    /\ result.status = "success"
                    /\ result.rows_merged = runs[r].merge_info.rows_processed
                    /\ result.rows_merged = runs[r].num_rows
                    /\ result.rows_merged = Len(runs[r].remote)
    /\ (runs # << >> /\ StepOk(Len(runs), "merge_data_to_main_table")) => IdsOf(staging) \subseteq IdsOf(main)

\* Reached: a merge has returned that skipped a row of its two as a duplicate.
C24_Witness ==
    \E r \in DOMAIN runs :
        /\ StepOk(r, "merge_data_to_main_table")
        /\ Len(runs[r].result) = 1
        /\ runs[r].result[1].rows_merged = 2
        /\ Len(runs[r].inserted) = 1


\* The step of a run has not executed.
Pending(r, s) == runs[r].step[s] = "pending"

\* C23 as stated: in every execution that the dependencies of the job allow
\* the steps take effect in the order extract, create tables, load, add ids,
\* merge, cleanup: a step has executed only when the one before it has
\* succeeded; cleanup_files then never removes the CSV before the load has
\* read it and starts only after the merge.
C23_StepsTakeEffectInJobOrder ==
    \A r \in DOMAIN runs :
        /\ ~Pending(r, "create_taxi_tables") => StepOk(r, "extract_taxi_data")
        /\ ~Pending(r, "load_csv_to_staging") => StepOk(r, "create_taxi_tables")
        /\ ~Pending(r, "add_unique_id_and_filename") => StepOk(r, "load_csv_to_staging")
        /\ ~Pending(r, "merge_data_to_main_table") => StepOk(r, "add_unique_id_and_filename")
        /\ ~Pending(r, "cleanup_files") => StepOk(r, "merge_data_to_main_table")

\* The entries of the log that an op of a run wrote.
ErrorsOf(r, s) == { i \in 1..Len(log) : log[i].run = r /\ log[i].op = s }

\* C25 as stated: every op of the job, cleanup_files among them, logs an
\* exception of its body and fails without a value, so that no step that
\* depends on it runs, and a run whose load or tagging failed leaves main
\* as it was.
C25_EveryStepLogsAndRaises ==
    \A r \in DOMAIN runs :
        /\ \A s \in Steps :
              /\ ErrorsOf(r, s) # { } => runs[r].step[s] = "failed"
              /\ runs[r].step[s] = "failed" => ErrorsOf(r, s) # { }
              /\ Blocked(r, s) => Pending(r, s)
        /\ (runs[r].step["load_csv_to_staging"] = "failed"
               \/ runs[r].step["add_unique_id_and_filename"] = "failed")
           => (Pending(r, "merge_data_to_main_table") /\ runs[r].inserted = << >>)

\* The seven hashed fields of a row as text, NULL read as the empty string.
HashedFields(row) ==
    << Coalesce(row.VendorID), Coalesce(row.pickup_datetime), Coalesce(row.dropoff_datetime),
       Coalesce(row.PULocationID), Coalesce(row.DOLocationID),
       CoalesceNumber(row.fare_amount), CoalesceNumber(row.trip_distance) >>

\* C26 as stated: two staged rows have the same unique_row_id only if they
\* agree on the seven hashed fields, and so a merge leaves in main, for every
\* staged trip, a row that agrees with it on the seven fields.
C26_SameIdOnlyForSameFields ==
    /\ \A i, j \in 1..Len(staging) :
          (staging[i].unique_row_id # Null /\ staging[i].unique_row_id = staging[j].unique_row_id)
          => HashedFields(staging[i]) = HashedFields(staging[j])
    /\ (runs # << >> /\ StepOk(Len(runs), "merge_data_to_main_table"))
       => \A i \in 1..Len(staging) :
             \E j \in 1..Len(main) : HashedFields(main[j]) = HashedFields(staging[i])

-----------------------------------------------------------------------------
(* Two runs of the job for the same taxi type and different months, whose  *)
(* steps interleave: both use the staging table and the main table of the  *)
(* taxi type.                                                              *)

InitTaxiRuns ==
    /\ runs \in { << NewRun(TaxiFilename("yellow", "2019", "01"), first),
                     NewRun(TaxiFilename("yellow", "2019", "02"), second) >> :
                  first \in TaxiFiles, second \in TaxiFiles }
    /\ staging = << >>
    /\ main = << >>
    /\ files = << >>
    /\ log = << >>
    /\ InitTaxiIdle

NextTaxiRuns ==
    \/ ExtractTaxiData
    \/ CreateTaxiTables
    \/ LoadCsvToStaging
    \/ AddUniqueIdAndFilename
    \/ MergeDataToMainTable
    \/ CleanupFiles

SpecTaxiRuns == InitTaxiRuns /\ [][NextTaxiRuns]_vars

\* C27 as stated: every run whose merge has completed has put every row of
\* its file into main, and every row that it inserted has the name of its
\* file as filename.
C27_MergedRunsHoldTheirOwnRows ==
    \A r \in DOMAIN runs :
        StepOk(r, "merge_data_to_main_table") =>
            /\ \A i \in 1..Len(runs[r].remote) :
                  Value(UniqueRowId(runs[r].remote[i])) \in IdsOf(main)
            /\ \A i \in 1..Len(runs[r].inserted) :
                  runs[r].inserted[i].filename = Value(runs[r].filename)

====
